---- MODULE Spec2Model ----
EXTENDS Integers, Sequences, FiniteSets, TLC

(***************************************************************************)
(* Verification model of the gadget runtime framework:                     *)
(*   - enricher registry, dependency sort and per-run lifecycle            *)
(*     (internal/enrichers, internal/gadget-runner, internal/runtime/local)*)
(***************************************************************************)

\* ------------------------------------------------------------------ bounds
\* Longest Dependencies() list an enricher of the model declares.
MaxDeps == 2

\* ------------------------------------------------------------- universes
\* Names of the enrichers that may be registered (enrichers_test.go uses
\* enricher1..enricher3).
Names == {"e1", "e2", "e3"}

\* Every Dependencies() list of at most MaxDeps names (order and
\* repetitions kept: the code walks the slice as given).
DepLists == UNION {[1..n -> Names] : n \in 0..MaxDeps}

Range(s) == {s[i] : i \in 1..Len(s)}

\* All orders in which a Go map range may deliver the members of S.
Orders(S) == {s \in [1..Cardinality(S) -> S] : Range(s) = S}

NoError == "nil"
ErrCycle == "dependency cycle detected"
ErrIndex == "panic: index out of range"

\* gadgets.GadgetType values the local runtime knows, and one it does not.
TypeTrace == "trace"
TypeTracePerContainer == "tracePerContainer"
TypeTraceIntervals == "traceIntervals"
TypeOneShot == "oneShot"
TypeProfile == "profile"
TypeOther == "other"
GadgetTypes == {TypeTrace, TypeTracePerContainer, TypeTraceIntervals, TypeOneShot,
                TypeProfile, TypeOther}

\* part_008:53-57: the types Runtime.RunGadget hands to RunTraceGadget.
TraceGadgetTypes == {TypeTrace, TypeTracePerContainer, TypeTraceIntervals,
                     TypeProfile, TypeOneShot}

\* Values a gadget's Result() may return: (bytes, error).
ResultValues == {<<"bytes", NoError>>, <<"", "result error">>}

\* One entry of the call log: the callback, its receiver, whether it
\* returned without error.
Ev(op, who, ok) == [op |-> op, who |-> who, ok |-> ok]
Gadget == "gadget"

VARIABLES
    registry,      \* enrichers map: name -> Dependencies() of the enricher
    canEnrich,     \* names whose CanEnrich(gadget) is true
    gType,         \* gadget.Type()
    instantiable,  \* the gadget implements gadgets.GadgetInstantiate
    startStop,     \* "alt": StartStopAltGadget, "std": StartStopGadget, "none"
    hasClose,      \* the gadget instance implements CloseGadget
    hasResult,     \* the gadget instance implements GadgetResult
    pc,            \* position of GadgetRunner.RunGadget / RunTraceGadget
    rEnrichers,    \* GadgetRunner.enrichers
    calls,         \* callbacks invoked so far, in order
    ctxDone,       \* runner.Context() is done
    gadgetResult,  \* what the gadget's Result() returned, <<>> before the call
    rResult,       \* GadgetRunner.result / resultError, <<>> while unset
    retErr         \* what RunGadget returned (or the panic it raised)

runVars == <<registry, canEnrich, gType, instantiable, startStop, hasClose, hasResult, pc,
             rEnrichers, calls, ctxDone, gadgetResult, rResult, retErr>>

\* Container manager operator instance of one run (localManagerTrace,
\* KubeManagerTrace) and the container collection it subscribes to.
VARIABLES
    manager,       \* "LocalManager" or "KubeManager"
    igManagerNil,  \* LocalManager.igManager == nil
    host,          \* the host parameter
    selName,       \* the containername parameter of the selector
    isSetter,      \* the gadget instance implements MountNsMapSetter
    isAttacher,    \* the gadget instance implements Attacher
    collection,    \* containers in the container collection
    gone,          \* containers removed from the collection
    subs,          \* subscription key registered with the collection, "" if none
    everMatching,  \* matching containers present at or added since Subscribe
    initial,       \* containers returned by Subscribe
    lSubKey,       \* localManagerTrace.subscriptionKey
    lMntns,        \* localManagerTrace.mountnsmap, "" when nil
    mntnsMaps,     \* ids of the mount namespace maps the manager holds
    gcalls,        \* Attach/Detach calls the gadget received, in order
    attached,      \* localManagerTrace.attachedContainers
    apc,           \* position of the operator instance
    aErr           \* error returned by PreGadgetRun

attCfg == <<manager, igManagerNil, host, selName, isSetter, isAttacher>>

attVars == <<attCfg, collection, gone, subs, everMatching, initial, lSubKey,
             lMntns, mntnsMaps, gcalls, attached, apc, aErr>>

\* PersistentGadgetHost and the calls in flight on it.
VARIABLES
    gadgetRuns,    \* PersistentGadgetHost.gadgetRuns: id -> run handle, 0 if absent
    runs,          \* the GadgetRun objects created so far, by handle
    threads        \* the API calls made so far and their position

hostVars == <<gadgetRuns, runs, threads>>

\* Instance manager and file store.
VARIABLES
    gadgetInstances, \* Manager.gadgetInstances: id -> request
    files,           \* <id>.gadget files of the file store: id -> request
    usedIds,         \* ids generated so far
    lastCall         \* the last call on the manager or store and its result

mgrVars == <<gadgetInstances, files, usedIds, lastCall>>

VARIABLES requested, evData, ewCalls

ewVars == <<requested, evData, ewCalls>>

VARIABLES tkDone, tkPc, tkPackets, tkLate

tkVars == <<tkDone, tkPc, tkPackets, tkLate>>

VARIABLES pidCache, symbolCache, symExe, symCalls, symLast

symVars == <<pidCache, symbolCache, symExe, symCalls, symLast>>

VARIABLES ndTransport, ndProc, ndStream

ndVars == <<ndTransport, ndProc, ndStream>>

VARIABLES oiInitialized, oiOnce, oiBodyRuns, oiCaller

oiVars == <<oiInitialized, oiOnce, oiBodyRuns, oiCaller>>

VARIABLES mtEnabled, mtKind, mtState, mtCounters, mtSum, mtCount

mtVars == <<mtEnabled, mtKind, mtState, mtCounters, mtSum, mtCount>>

VARIABLES pm, pmLast

pmVars == <<pm, pmLast>>

VARIABLES wqQueue, wqDelayed, wqProc, wqDirty, wqFailures, wqExists, wqEvents, wqLast

wqVars == <<wqQueue, wqDelayed, wqProc, wqDirty, wqFailures, wqExists, wqEvents, wqLast>>

VARIABLES wsGadgets, wsCtxs, wsLast

wsVars == <<wsGadgets, wsCtxs, wsLast>>

VARIABLES attachments, openSocks, nextFd, trOps, attachOk, detachCalls, closeReleased,
          trLast

trVars == <<attachments, openSocks, nextFd, trOps, attachOk, detachCalls, closeReleased,
           trLast>>

vars == <<runVars, attVars, hostVars, mgrVars, ewVars, tkVars, symVars, ndVars, oiVars, mtVars, pmVars, wqVars, wsVars, trVars>>

notRun == <<attVars, hostVars, mgrVars, ewVars, tkVars, symVars, ndVars, oiVars, mtVars, pmVars, wqVars, wsVars, trVars>>
notAtt == <<runVars, hostVars, mgrVars, ewVars, tkVars, symVars, ndVars, oiVars, mtVars, pmVars, wqVars, wsVars, trVars>>
notHost == <<runVars, attVars, mgrVars, ewVars, tkVars, symVars, ndVars, oiVars, mtVars, pmVars, wqVars, wsVars, trVars>>
notMgr == <<runVars, attVars, hostVars, ewVars, tkVars, symVars, ndVars, oiVars, mtVars, pmVars, wqVars, wsVars, trVars>>
notEw == <<runVars, attVars, hostVars, mgrVars, tkVars, symVars, ndVars, oiVars, mtVars, pmVars, wqVars, wsVars, trVars>>
notTk == <<runVars, attVars, hostVars, mgrVars, ewVars, symVars, ndVars, oiVars, mtVars, pmVars, wqVars, wsVars, trVars>>
notSym == <<runVars, attVars, hostVars, mgrVars, ewVars, tkVars, ndVars, oiVars, mtVars, pmVars, wqVars, wsVars, trVars>>
notNd == <<runVars, attVars, hostVars, mgrVars, ewVars, tkVars, symVars, oiVars, mtVars, pmVars, wqVars, wsVars, trVars>>
notOi == <<runVars, attVars, hostVars, mgrVars, ewVars, tkVars, symVars, ndVars, mtVars, pmVars, wqVars, wsVars, trVars>>
notMt == <<runVars, attVars, hostVars, mgrVars, ewVars, tkVars, symVars, ndVars, oiVars, pmVars, wqVars, wsVars, trVars>>
notPm == <<runVars, attVars, hostVars, mgrVars, ewVars, tkVars, symVars, ndVars, oiVars, mtVars, wqVars, wsVars, trVars>>
notWq == <<runVars, attVars, hostVars, mgrVars, ewVars, tkVars, symVars, ndVars, oiVars, mtVars, pmVars, wsVars, trVars>>
notWs == <<runVars, attVars, hostVars, mgrVars, ewVars, tkVars, symVars, ndVars, oiVars, mtVars, pmVars, wqVars, trVars>>
notTr == <<runVars, attVars, hostVars, mgrVars, ewVars, tkVars, symVars, ndVars, oiVars, mtVars, pmVars, wqVars, wsVars>>

\* ------------------------------------------------------- SortEnrichers
\* part_006:184-195: incoming edge count per name; a Go map read of an
\* absent key yields 0, so the map is a total function starting at 0.
RECURSIVE CountDeps(_, _)
CountDeps(inc, ds) ==
    IF ds = <<>> THEN inc
    ELSE CountDeps([inc EXCEPT ![Head(ds)] = @ + 1], Tail(ds))

RECURSIVE BuildIncoming(_, _, _)
BuildIncoming(inc, es, deps) ==
    IF es = <<>> THEN inc
    ELSE BuildIncoming(CountDeps(inc, deps[Head(es)]), Tail(es), deps)

\* part_006:197-203: the queue starts with the names nobody depends on.
InitialQueue(es, inc) == SelectSeq(es, LAMBDA n : inc[n] = 0)

\* part_006:229-239: walk the dependencies of result[0].
RECURSIVE VisitDeps(_, _)
VisitDeps(st, ds) ==
    IF ds = <<>> THEN st
    ELSE LET d == Head(ds)
             inc1 == [st.inc EXCEPT ![d] = @ - 1]
             q1 == IF inc1[d] = 0 THEN Append(st.queue, d) ELSE st.queue
         IN  IF d \in st.visited
             THEN [st EXCEPT !.inc = inc1, !.queue = q1, !.err = ErrCycle]
             ELSE VisitDeps([st EXCEPT !.inc = inc1, !.queue = q1], Tail(ds))

\* Mutant of Prepend: the popped element is appended instead.
PrependAsAppend(n, result) == Append(result, n)

\* part_006:220-226: the popped element is prepended to the result.
Prepend(n, result) == <<n>> \o result

\* part_006:212-240: the queue loop.
RECURSIVE ProcessQueue(_, _, _)
ProcessQueue(st, es, deps) ==
    IF st.queue = <<>> THEN st
    ELSE LET n == Head(st.queue)
             res1 == IF n \in Range(es) THEN Prepend(n, st.result) ELSE st.result
             st1 == [st EXCEPT !.queue = Tail(st.queue),
                               !.visited = @ \cup {n},
                               !.result = res1]
         IN  IF res1 = <<>> THEN [st1 EXCEPT !.err = ErrIndex]
             ELSE LET st2 == VisitDeps(st1, deps[res1[1]])
                  IN  IF st2.err # NoError THEN st2
                      ELSE ProcessQueue(st2, es, deps)

\* part_006:182-250: SortEnrichers(enrichers) -> (result, err).
SortEnrichers(es, deps) ==
    LET inc0 == BuildIncoming([n \in Names |-> 0], es, deps)
        st0 == [inc |-> inc0, queue |-> InitialQueue(es, inc0),
                result |-> <<>>, visited |-> {}, err |-> NoError]
        st == ProcessQueue(st0, es, deps)
    IN  IF st.err # NoError THEN [result |-> <<>>, err |-> st.err]
        ELSE IF \E i \in 1..Len(es) : es[i] \notin st.visited
             THEN [result |-> <<>>, err |-> ErrCycle]
             ELSE [result |-> st.result, err |-> NoError]

\* ------------------------------------------------ enrichers collection
\* Mutant of GetEnrichersForGadget: the sort error is dropped and the
\* unsorted candidates are used.
GetEnrichersIgnoringSortError(order, deps) ==
    LET s == SortEnrichers(order, deps)
    IN  [panic |-> FALSE,
         out |-> IF s.err # NoError THEN order ELSE s.result,
         err |-> NoError]

\* part_006:124-136: GetEnrichersForGadget over the registry delivered in
\* map order `order`; a sort error is turned into a panic.
GetEnrichersForGadget(order, deps) ==
    LET s == SortEnrichers(order, deps)
    IN  IF s.err # NoError
        THEN [panic |-> TRUE, out |-> <<>>, err |-> s.err]
        ELSE [panic |-> FALSE, out |-> s.result, err |-> NoError]

\* part_006:138-146: InitAll; k = 0: every Init succeeds, otherwise the
\* k-th enricher's Init returns an error and the loop returns.
EnrichersInitAll(es, k) ==
    LET n == IF k = 0 THEN Len(es) ELSE k
    IN  [calls |-> [i \in 1..n |-> Ev("Init", es[i], i # k)],
         err |-> IF k = 0 THEN NoError ELSE "initializing enricher",
         who |-> IF k = 0 THEN "" ELSE es[k]]

\* part_006:156-165: PreGadgetRun; f = 0: every enricher succeeds,
\* otherwise the f-th returns an error and the loop returns.
EnrichersPreGadgetRun(es, f) ==
    LET n == IF f = 0 THEN Len(es) ELSE f
    IN  [calls |-> [i \in 1..n |-> Ev("PreGadgetRun", es[i], i # f)],
         err |-> IF f = 0 THEN NoError ELSE "start trace on enricher",
         who |-> IF f = 0 THEN "" ELSE es[f]]

\* part_006:167-173: PostGadgetRun ranges over the slice from its start.
EnrichersPostGadgetRun(es) == [i \in 1..Len(es) |-> Ev("PostGadgetRun", es[i], TRUE)]

\* ---------------------------------------------------- GadgetRunner
\* Mutant of SetResult: the error of Result() is not kept.
SetResultDropsError(res) == <<res[1], NoError>>

\* gadgetrunner.go:90-93
SetResult(res) == res

\* gadgetrunner.go:95-97
GetResult == rResult

runCfg == <<registry, canEnrich, gType, instantiable, startStop, hasClose,
           hasResult>>

\* gadgetrunner.go:104-111: RunGadget up to the enrichers being sorted.
RunGadget ==
    /\ pc = "idle"
    /\ \E order \in Orders(canEnrich) :
         LET g == GetEnrichersForGadget(order, registry)
         IN  IF g.panic
             THEN /\ pc' = "panicked"
                  /\ retErr' = [msg |-> "panic: sorting enrichers", who |-> g.err]
                  /\ UNCHANGED rEnrichers
             ELSE /\ pc' = "sorted"
                  /\ rEnrichers' = g.out
                  /\ UNCHANGED retErr
    /\ UNCHANGED <<notRun, runCfg, calls, ctxDone, gadgetResult, rResult>>

\* gadgetrunner.go:112-115
InitAll ==
    /\ pc = "sorted"
    /\ \E k \in 0..Len(rEnrichers) :
         LET r == EnrichersInitAll(rEnrichers, k)
         IN  /\ calls' = calls \o r.calls
             /\ IF r.err # NoError
                THEN /\ pc' = "returned"
                     /\ retErr' = [msg |-> "initializing enrichers", who |-> r.who]
                ELSE /\ pc' = "runtime"
                     /\ UNCHANGED retErr
    /\ UNCHANGED <<notRun, runCfg, rEnrichers, ctxDone, gadgetResult, rResult>>

\* ---------------------------------------------------- local runtime
\* part_008:39-64 and local-trace.go:59-63: the assertion to
\* GadgetInstantiate, the type switch, then gadget.NewInstance; ok = FALSE:
\* NewInstance returns an error.
RuntimeRunGadget ==
    /\ pc = "runtime"
    /\ IF ~instantiable
       THEN /\ pc' = "returned"
            /\ retErr' = [msg |-> "gadget not instantiable", who |-> Gadget]
            /\ UNCHANGED calls
       ELSE IF gType \notin TraceGadgetTypes
       THEN /\ pc' = "returned"
            /\ retErr' = [msg |-> "unimplemented gadget type", who |-> Gadget]
            /\ UNCHANGED calls
       ELSE \E ok \in BOOLEAN :
              /\ calls' = Append(calls, Ev("NewInstance", Gadget, ok))
              /\ IF ok
                 THEN /\ pc' = "preRun"
                      /\ UNCHANGED retErr
                 ELSE /\ pc' = "returned"
                      /\ retErr' = [msg |-> "instantiate gadget", who |-> Gadget]
    /\ UNCHANGED <<notRun, runCfg, rEnrichers, ctxDone, gadgetResult, rResult>>

\* Mutant of AfterPreGadgetRun: the error of the enrichers is not checked.
AfterPreGadgetRunUnchecked(err) == "start"

\* local-trace.go:80-83: an error of the enrichers returns at once (only the
\* deferred Close/Result of lines 66-76 is pending).
AfterPreGadgetRun(err) == IF err # NoError THEN "deferClose" ELSE "start"

\* local-trace.go:78-84: install the enrichers.
PreGadgetRun ==
    /\ pc = "preRun"
    /\ \E f \in 0..Len(rEnrichers) :
         LET r == EnrichersPreGadgetRun(rEnrichers, f)
         IN  /\ calls' = calls \o r.calls
             /\ pc' = AfterPreGadgetRun(r.err)
             /\ IF r.err # NoError
                THEN retErr' = [msg |-> "starting enrichers", who |-> r.who]
                ELSE UNCHANGED retErr
    /\ UNCHANGED <<notRun, runCfg, rEnrichers, ctxDone, gadgetResult, rResult>>

\* local-trace.go:109-131: StartAlt/Start; on error Stop is called
\* directly and the function returns through the pending defers.
StartCalls(kind, fail) ==
    IF kind = "none" THEN <<>>
    ELSE IF fail THEN <<Ev("Start", Gadget, FALSE), Ev("Stop", Gadget, TRUE)>>
    ELSE <<Ev("Start", Gadget, TRUE)>>

StartGadget ==
    /\ pc = "start"
    /\ \E fail \in BOOLEAN :
         /\ (startStop = "none") => ~fail
         /\ calls' = calls \o StartCalls(startStop, fail)
         /\ IF fail
            THEN /\ pc' = "deferPost"
                 /\ retErr' = [msg |-> "run gadget", who |-> Gadget]
            ELSE /\ pc' = "running"
                 /\ UNCHANGED retErr
    /\ UNCHANGED <<notRun, runCfg, rEnrichers, ctxDone, gadgetResult, rResult>>

\* Mutant of MayLeaveWait: no gadget type waits for the context.
MayLeaveWaitAtOnce(type, done) == TRUE

\* local-trace.go:135-138: only a one-shot gadget does not wait.
MayLeaveWait(type, done) == type = TypeOneShot \/ done

\* local-trace.go:133-141
WaitDone ==
    /\ pc = "running"
    /\ MayLeaveWait(gType, ctxDone)
    /\ pc' = "deferStop"
    /\ UNCHANGED <<notRun, runCfg, rEnrichers, calls, ctxDone, gadgetResult, rResult, retErr>>

\* local-trace.go:116-119 / 127-130: the defer registered last runs first.
DeferStop ==
    /\ pc = "deferStop"
    /\ calls' = IF startStop = "none" THEN calls ELSE Append(calls, Ev("Stop", Gadget, TRUE))
    /\ pc' = "deferPost"
    /\ UNCHANGED <<notRun, runCfg, rEnrichers, ctxDone, gadgetResult, rResult, retErr>>

\* local-trace.go:83
DeferPostGadgetRun ==
    /\ pc = "deferPost"
    /\ calls' = calls \o EnrichersPostGadgetRun(rEnrichers)
    /\ pc' = "deferClose"
    /\ UNCHANGED <<notRun, runCfg, rEnrichers, ctxDone, gadgetResult, rResult, retErr>>

\* local-trace.go:66-76: Close, then Result handed to runner.SetResult.
CloseResultCalls(close, result) ==
    (IF close THEN <<Ev("Close", Gadget, TRUE)>> ELSE <<>>)
    \o (IF result THEN <<Ev("Result", Gadget, TRUE)>> ELSE <<>>)

DeferCloseResult ==
    /\ pc = "deferClose"
    /\ calls' = calls \o CloseResultCalls(hasClose, hasResult)
    /\ IF hasResult
       THEN \E res \in ResultValues :
              /\ gadgetResult' = res
              /\ rResult' = SetResult(res)
       ELSE UNCHANGED <<gadgetResult, rResult>>
    /\ pc' = "returned"
    /\ UNCHANGED <<notRun, runCfg, rEnrichers, ctxDone, retErr>>

\* The runner's context is cancelled by its owner at any time of the run.
CancelContext ==
    /\ pc \notin {"returned", "panicked"}
    /\ ~ctxDone
    /\ ctxDone' = TRUE
    /\ UNCHANGED <<notRun, runCfg, pc, rEnrichers, calls, gadgetResult, rResult, retErr>>

\* ------------------------------------- container collection (pub/sub)
\* Containers the runtime may report: id and container name.
Containers == {[id |-> "a", name |-> "demo"],
               [id |-> "b", name |-> "other"],
               [id |-> "c", name |-> "demo"]}

\* localmanager.go:374: the fake container with pid 1 attached for --host.
HostContainer == [id |-> "pid1", name |-> ""]

\* uuid.New() of the run (localmanager.go:277, kubemanager.go:282).
RunID == "run-id"

\* Selector semantics: an empty field is a wildcard.
Matches(sel, c) == sel = "" \/ c.name = sel

\* Subscribe returns the containers of the collection that match now.
Subscribe(sel, cs) == {c \in cs : Matches(sel, c)}

\* One call of the gadget's Attacher.
GCall(op, c, ok) == [op |-> op, c |-> c, ok |-> ok]

\* localmanager.go:323-340, kubemanager.go:238-265: attachContainerFunc for
\* each container of list; oks are the containers whose attach succeeds.
AttachCalls(list, oks) == [i \in 1..Len(list) |-> GCall("Attach", list[i], list[i] \in oks)]

\* Mutant of InitialAttachList: the containers returned by Subscribe are
\* not attached.
InitialAttachListHostOnly(containers, withHost) ==
    IF withHost THEN <<HostContainer>> ELSE <<>>

\* localmanager.go:371-379, kubemanager.go:299-301: the containers attached
\* right after Subscribe.
InitialAttachList(containers, withHost) ==
    IF withHost THEN Append(containers, HostContainer) ELSE containers

\* uuid.New() of Prepare (localmanager.go:524), another id than the one
\* PreGadgetRun draws.
PrepareID == "prepare-id"

\* localmanager.go:275-369, kubemanager.go:199-297: PreGadgetRun up to and
\* including Subscribe. mapOk: creating the mount namespace map succeeds.
\* mnt and maps are l.mountnsmap and the manager's maps when it is
\* called; prefix is what the caller puts before its error.
PreGadgetRunFrom(mnt, maps, prefix) ==
    \E mapOk \in BOOLEAN :
      LET needMap == isSetter /\ (manager = "KubeManager" \/ ~host)
          noColl == manager = "LocalManager" /\ igManagerNil
          errMap == IF needMap /\ noColl THEN "container-collection isn't available"
                    ELSE IF needMap /\ ~mapOk THEN "creating mountns map"
                    ELSE NoError
          errAtt == IF isAttacher /\ noColl /\ ~host
                    THEN "container-collection isn't available" ELSE NoError
          mapSet == needMap /\ errMap = NoError
          doSub == isAttacher /\ ~noColl /\ errMap = NoError
      IN  /\ (~needMap \/ noColl) => mapOk
          /\ lMntns' = IF mapSet THEN RunID ELSE mnt
          /\ mntnsMaps' = IF mapSet /\ manager = "LocalManager"
                          THEN maps \cup {RunID} ELSE maps
          /\ IF errMap # NoError
             THEN /\ apc' = "failed"
                  /\ aErr' = prefix \o errMap
                  /\ UNCHANGED <<subs, everMatching, initial, lSubKey>>
             ELSE IF errAtt # NoError
             THEN /\ apc' = "failed"
                  /\ aErr' = prefix \o errAtt
                  /\ UNCHANGED <<subs, everMatching, initial, lSubKey>>
             ELSE IF doSub
             THEN /\ lSubKey' = RunID
                  /\ subs' = RunID
                  /\ everMatching' = Subscribe(selName, collection)
                  /\ initial' \in Orders(Subscribe(selName, collection))
                  /\ apc' = "subscribed"
                  /\ UNCHANGED aErr
             ELSE /\ apc' = IF isAttacher THEN "subscribed" ELSE "running"
                  /\ UNCHANGED <<subs, everMatching, initial, lSubKey, aErr>>

\* The run calls PreGadgetRun on the operator instance.
OpPreGadgetRun ==
    /\ apc = "idle"
    /\ PreGadgetRunFrom(lMntns, mntnsMaps, "")
    /\ UNCHANGED <<notAtt, attCfg, collection, gone, gcalls, attached>>

\* localmanager.go:523-575: Prepare of an instance made by
\* InstantiateDataOperator, whose parameters are the defaults (429-438).
\* It always asks the manager for a mount namespace map, under its own id,
\* and then calls PreGadgetRun. prepOk: creating that map succeeds.
OpPrepare ==
    /\ apc = "idle"
    /\ manager = "LocalManager"
    /\ ~host
    /\ selName = ""
    /\ IF igManagerNil
       THEN /\ apc' = "failed"
            /\ aErr' = "container-collection isn't available"
            /\ UNCHANGED <<subs, everMatching, initial, lSubKey, lMntns, mntnsMaps>>
       ELSE \E prepOk \in BOOLEAN :
              IF ~prepOk
              THEN /\ apc' = "failed"
                   /\ aErr' = "creating mountns map"
                   /\ UNCHANGED <<subs, everMatching, initial, lSubKey, lMntns, mntnsMaps>>
              ELSE PreGadgetRunFrom(PrepareID, mntnsMaps \cup {PrepareID}, "preGadgetRun: ")
    /\ UNCHANGED <<notAtt, attCfg, collection, gone, gcalls, attached>>

\* localmanager.go:371-383, kubemanager.go:299-304: attach the containers
\* returned by Subscribe (and the fake host container).
OpAttachInitial ==
    /\ apc = "subscribed"
    /\ LET list == InitialAttachList(initial, manager = "LocalManager" /\ host)
       IN  \E oks \in SUBSET Range(list) :
             /\ gcalls' = gcalls \o AttachCalls(list, oks)
             /\ attached' = attached \cup oks
    /\ apc' = "running"
    /\ UNCHANGED <<notAtt, attCfg, collection, gone, subs, everMatching, initial,
                   lSubKey, lMntns, mntnsMaps, aErr>>

\* The collection adds a container and publishes it to the subscription,
\* whose callback is attachContainerFunc (localmanager.go:359-367).
AddContainer(c) ==
    /\ ~igManagerNil
    /\ apc \notin {"done", "failed"}
    /\ c \notin collection \cup gone
    /\ collection' = collection \cup {c}
    /\ IF subs # "" /\ Matches(selName, c)
       THEN /\ everMatching' = everMatching \cup {c}
            /\ \E ok \in BOOLEAN :
                 /\ gcalls' = gcalls \o AttachCalls(<<c>>, IF ok THEN {c} ELSE {})
                 /\ attached' = IF ok THEN attached \cup {c} ELSE attached
       ELSE UNCHANGED <<everMatching, gcalls, attached>>
    /\ UNCHANGED <<notAtt, attCfg, gone, subs, initial, lSubKey, lMntns, mntnsMaps,
                   apc, aErr>>

\* The collection removes a container and publishes the removal, whose
\* callback is detachContainerFunc (localmanager.go:342-351).
RemoveContainer(c) ==
    /\ ~igManagerNil
    /\ apc \notin {"done", "failed"}
    /\ c \in collection
    /\ collection' = collection \ {c}
    /\ gone' = gone \cup {c}
    /\ IF subs # "" /\ Matches(selName, c)
       THEN \E ok \in BOOLEAN : gcalls' = Append(gcalls, GCall("Detach", c, ok))
       ELSE UNCHANGED gcalls
    /\ UNCHANGED <<notAtt, attCfg, subs, everMatching, initial, lSubKey, lMntns,
                   mntnsMaps, attached, apc, aErr>>

\* localmanager.go:385-410, kubemanager.go:307-324: PostGadgetRun.
OpPostGadgetRun ==
    /\ apc = "running"
    /\ mntnsMaps' = IF manager = "LocalManager" /\ lMntns # ""
                    THEN mntnsMaps \ {lSubKey} ELSE mntnsMaps
    /\ IF lSubKey # ""
       THEN /\ subs' = ""
            /\ IF isAttacher
               THEN \E ord \in Orders(attached) :
                      gcalls' = gcalls
                          \o [i \in 1..Len(ord) |-> GCall("Detach", ord[i], TRUE)]
                          \o (IF manager = "LocalManager" /\ host
                              THEN <<GCall("Detach", HostContainer, TRUE)>> ELSE <<>>)
               ELSE UNCHANGED gcalls
       ELSE UNCHANGED <<subs, gcalls>>
    /\ apc' = "done"
    /\ UNCHANGED <<notAtt, attCfg, collection, gone, everMatching, initial, lSubKey,
                   lMntns, attached, aErr>>

\* ------------------------------------------- persistent gadget host
MaxCalls == 3

Ids == {"x", "y"}

\* A lookup in gadgetRuns that finds no entry.
NoRun == 0

ErrExists == "gadgetID already exists"
ErrNotFound == "gadget run not found"
ErrInit == "initialize operators"

\* persistent-host.go:72-75: a fresh GadgetRun; cancelFn and gadgetCtx are
\* nil, run() has not been started and the context is not cancelled.
NewGadgetRun(id) ==
    [id |-> id, cancelFn |-> FALSE, gadgetCtx |-> FALSE, state |-> "new",
     cancelled |-> FALSE]

\* One call of AddGadgetRun or StopAndRemoveGadgetRun in progress.
Thread(op, id, at, h, err) == [op |-> op, id |-> id, pc |-> at, h |-> h, err |-> err]

\* run() on a nil gadget context dereferences a nil pointer: the process
\* is gone.
Crashed == \E h \in 1..Len(runs) : runs[h].state = "panic"

\* persistent-host.go:67-77: AddGadgetRun under the lock.
AddGadgetRunRegister(id) ==
    /\ ~Crashed
    /\ Len(threads) < MaxCalls
    /\ IF gadgetRuns[id] # NoRun
       THEN /\ threads' = Append(threads, Thread("Add", id, "done", NoRun, ErrExists))
            /\ UNCHANGED <<gadgetRuns, runs>>
       ELSE /\ runs' = Append(runs, NewGadgetRun(id))
            /\ gadgetRuns' = [gadgetRuns EXCEPT ![id] = Len(runs) + 1]
            /\ threads' = Append(threads, Thread("Add", id, "init", Len(runs) + 1, NoError))
    /\ UNCHANGED notHost

\* persistent-host.go:103-182: what init leaves in the run. "ok" reaches
\* line 181, "nil" returns nil early (118, 134, 143, 152), "err" is 125.
GadgetRunInit(r, outcome) ==
    IF outcome = "ok" THEN [r EXCEPT !.cancelFn = TRUE, !.gadgetCtx = TRUE] ELSE r

\* persistent-host.go:80-86: init, and the removal of the id on error.
AddGadgetRunInit(t) ==
    /\ ~Crashed
    /\ threads[t].op = "Add" /\ threads[t].pc = "init"
    /\ \E outcome \in {"ok", "nil", "err"} :
         /\ runs' = [runs EXCEPT ![threads[t].h] = GadgetRunInit(@, outcome)]
         /\ IF outcome = "err"
            THEN /\ gadgetRuns' = [gadgetRuns EXCEPT ![threads[t].id] = NoRun]
                 /\ threads' = [threads EXCEPT ![t].pc = "done", ![t].err = ErrInit]
            ELSE /\ threads' = [threads EXCEPT ![t].pc = "go"]
                 /\ UNCHANGED gadgetRuns
    /\ UNCHANGED notHost

\* persistent-host.go:89, 184-186: go gadgetRun.run().
AddGadgetRunGo(t) ==
    /\ ~Crashed
    /\ threads[t].op = "Add" /\ threads[t].pc = "go"
    /\ runs' = [runs EXCEPT ![threads[t].h].state =
                    IF runs[threads[t].h].gadgetCtx THEN "running" ELSE "panic"]
    /\ threads' = [threads EXCEPT ![t].pc = "done"]
    /\ UNCHANGED <<notHost, gadgetRuns>>

\* persistent-host.go:51-56, 63: StopAndRemoveGadgetRun under the lock.
StopAndRemoveLookup(id) ==
    /\ ~Crashed
    /\ Len(threads) < MaxCalls
    /\ IF gadgetRuns[id] # NoRun
       THEN /\ gadgetRuns' = [gadgetRuns EXCEPT ![id] = NoRun]
            /\ threads' = Append(threads, Thread("Stop", id, "stop", gadgetRuns[id], NoError))
       ELSE /\ threads' = Append(threads, Thread("Stop", id, "done", NoRun, ErrNotFound))
            /\ UNCHANGED gadgetRuns
    /\ UNCHANGED <<notHost, runs>>

\* persistent-host.go:211-216: Stop cancels the context if cancelFn is set.
GadgetRunStop(r) == [r EXCEPT !.cancelled = r.cancelled \/ r.cancelFn]

\* persistent-host.go:58-61: gadgetRun.Stop() after the unlock.
StopAndRemoveStop(t) ==
    /\ ~Crashed
    /\ threads[t].op = "Stop" /\ threads[t].pc = "stop"
    /\ runs' = [runs EXCEPT ![threads[t].h] = GadgetRunStop(@)]
    /\ threads' = [threads EXCEPT ![t].pc = "done"]
    /\ UNCHANGED <<notHost, gadgetRuns>>

\* persistent-host.go:186-196: runtime.RunGadget returns and run() ends.
GadgetRunEnds(h) ==
    /\ ~Crashed
    /\ runs[h].state = "running"
    /\ runs' = [runs EXCEPT ![h].state = "ended"]
    /\ UNCHANGED <<notHost, gadgetRuns, threads>>

\* ---------------------------------------- instance manager, file store
MgrIds == {"i1", "i2", "i3"}

\* A run request holding a string that is not valid UTF-8, which
\* protojson refuses to marshal.
CfgInvalidUTF8 == "cfgInvalidUTF8"

Configs == {"cfgA", "cfgB", CfgInvalidUTF8}

\* part_024:77-79: RunOCIGadget returns nil; gi is m.gadgetInstances.
RunOCIGadget(gi, id, req) == [gadgetInstances |-> gi, err |-> NoError]

\* part_024:81-84.
StopOCIGadget(gi, id) == [gadgetInstances |-> gi, err |-> NoError]

\* part_024:86-88.
RemoveOCIGadget(gi, id) == [gadgetInstances |-> gi, err |-> NoError]

Call(op, id, req, err) == [op |-> op, id |-> id, req |-> req, err |-> err]

\* A caller of the manager runs a gadget instance.
MgrRunOCIGadget ==
    \E id \in MgrIds, req \in Configs :
      LET r == RunOCIGadget(gadgetInstances, id, req)
      IN  /\ gadgetInstances' = r.gadgetInstances
          /\ lastCall' = Call("RunOCIGadget", id, req, r.err)
          /\ UNCHANGED <<notMgr, files, usedIds>>

MgrStopOCIGadget ==
    \E id \in MgrIds :
      LET r == StopOCIGadget(gadgetInstances, id)
      IN  /\ gadgetInstances' = r.gadgetInstances
          /\ lastCall' = Call("StopOCIGadget", id, "", r.err)
          /\ UNCHANGED <<notMgr, files, usedIds>>

\* The installed instance: the request with the generated id
\* (filestore.go:119).
GadgetInstance(id, req) == [id |-> id, runRequest |-> req]

\* filestore.go:126: protojson.Marshal of the install request. On an
\* error the blob is empty; the caller discards the error and writes the
\* blob as it is.
Marshal(inst) ==
    IF inst.runRequest = CfgInvalidUTF8
    THEN [json |-> FALSE, inst |-> <<>>]
    ELSE [json |-> TRUE, inst |-> inst]

\* filestore.go:76-88: loadGadgetFile reads and unmarshals one gadget file.
loadGadgetFile(fs, id) ==
    IF id \notin DOMAIN fs THEN [inst |-> <<>>, err |-> "read file"]
    ELSE IF ~fs[id].json THEN [inst |-> <<>>, err |-> "unmarshal gadget info"]
    ELSE [inst |-> fs[id].inst, err |-> NoError]

\* filestore.go:91-110: getGadgets skips the files that do not load.
getGadgets(fs) ==
    {loadGadgetFile(fs, id).inst : id \in {i \in DOMAIN fs : loadGadgetFile(fs, i).err = NoError}}

\* filestore.go:141-151.
ListOCIGadgetInstances(fs) == getGadgets(fs)

\* filestore.go:65-71: init runs every stored gadget, one after the other.
RECURSIVE ReplayAll(_, _)
ReplayAll(gi, gadgets) ==
    IF gadgets = {} THEN [gadgetInstances |-> gi, err |-> NoError]
    ELSE LET g == CHOOSE x \in gadgets : TRUE
             r == RunOCIGadget(gi, g.id, g.runRequest)
         IN  IF r.err # NoError THEN r
             ELSE ReplayAll(r.gadgetInstances, gadgets \ {g})

\* filestore.go:112-139: a fresh id, the gadget file, then RunOCIGadget.
InstallOCIGadgetInstance ==
    \E id \in MgrIds \ usedIds, req \in Configs, writeOk \in BOOLEAN :
      /\ usedIds' = usedIds \cup {id}
      /\ IF writeOk
         THEN LET r == RunOCIGadget(gadgetInstances, id, req)
              IN  /\ files' = [i \in DOMAIN files \cup {id} |->
                                  IF i = id THEN Marshal(GadgetInstance(id, req))
                                  ELSE files[i]]
                  /\ gadgetInstances' = r.gadgetInstances
                  /\ lastCall' = Call("InstallOCIGadgetInstance", id, req, NoError)
         ELSE /\ lastCall' = Call("InstallOCIGadgetInstance", id, req,
                                  "storing gadget information")
              /\ UNCHANGED <<files, gadgetInstances>>
      /\ UNCHANGED notMgr

\* filestore.go:153-169: remove the gadget file, then RemoveOCIGadget. The
\* response carries Result 1 and the message of the error.
RemoveOCIGadgetInstance ==
    \E id \in MgrIds, removeOk \in BOOLEAN :
      /\ IF loadGadgetFile(files, id).err # NoError
         THEN /\ removeOk
              /\ lastCall' = Call("RemoveOCIGadgetInstance", id, "",
                                  loadGadgetFile(files, id).err)
              /\ UNCHANGED <<files, gadgetInstances>>
         ELSE LET r == RemoveOCIGadget(gadgetInstances, id)
              IN  /\ files' = IF removeOk
                              THEN [i \in DOMAIN files \ {id} |-> files[i]]
                              ELSE files
                  /\ gadgetInstances' = r.gadgetInstances
                  /\ lastCall' = Call("RemoveOCIGadgetInstance", id, "",
                                      IF removeOk THEN NoError ELSE "remove")
      /\ UNCHANGED <<notMgr, usedIds>>

\* filestore.go:54-73: a restart builds a new manager and replays every
\* stored instance to it.
FileStoreInit ==
    LET r == ReplayAll(<<>>, getGadgets(files))
    IN  /\ gadgetInstances' = r.gadgetInstances
        /\ lastCall' = Call("init", "", "", r.err)
        /\ UNCHANGED <<notMgr, files, usedIds>>

\* ------------------------------------------- event wrapper (compat)
\* part_010:85-121: the identity sub-fields added by WrapAccessors.
K8sFields == {"k8s.node", "k8s.namespace", "k8s.pod", "k8s.container", "k8s.hostnetwork"}

RuntimeFields == {"runtime.containerName", "runtime.runtimeName", "runtime.containerId",
                  "runtime.containerImageName", "runtime.containerImageDigest"}

IdentityFields == K8sFields \cup RuntimeFields

\* The content of a field no accessor has written.
Unset == "<unset>"

\* A nil *types.BasicK8sMetadata or *types.BasicRuntimeMetadata.
Nil == [nil |-> TRUE]

K8sMetadata == [Namespace |-> "ns", PodName |-> "pod", ContainerName |-> "ctr"]

RuntimeMetadata == [ContainerName |-> "rctr", RuntimeName |-> "docker", ContainerID |-> "cid",
                    ContainerImageName |-> "img", ContainerImageDigest |-> "sha"]

\* accessor.Set(data, value) guarded by check.IsRequested().
SetIfRequested(data, req, check, target, value) ==
    IF check \in req THEN [data EXCEPT ![target] = value] ELSE data

\* part_010:153-167: the k8s half of SetPodMetadata.
SetPodMetadataK8s(data, req, k8s) ==
    IF k8s = Nil THEN data
    ELSE LET d1 == SetIfRequested(data, req, "k8s.namespace", "k8s.namespace", k8s.Namespace)
             d2 == SetIfRequested(d1, req, "k8s.pod", "k8s.pod", k8s.PodName)
             d3 == SetIfRequested(d2, req, "runtime.containerName", "k8s.container",
                                  k8s.ContainerName)
         IN  SetIfRequested(d3, req, "k8s.hostnetwork", "k8s.hostnetwork", "0")

\* part_010:168-184: the runtime half of SetPodMetadata.
SetPodMetadataRuntime(data, req, rt) ==
    IF rt = Nil THEN data
    ELSE LET d1 == SetIfRequested(data, req, "runtime.containerName",
                                  "runtime.containerName", rt.ContainerName)
             d2 == SetIfRequested(d1, req, "runtime.runtimeName", "runtime.runtimeName",
                                  rt.RuntimeName)
             d3 == SetIfRequested(d2, req, "runtime.containerId", "runtime.containerId",
                                  rt.ContainerID)
             d4 == SetIfRequested(d3, req, "runtime.containerImageName",
                                  "runtime.containerImageName", rt.ContainerImageName)
         IN  SetIfRequested(d4, req, "runtime.containerImageDigest",
                            "runtime.containerImageDigest", rt.ContainerImageDigest)

\* part_010:152-185.
SetPodMetadata(data, req, k8s, rt) ==
    SetPodMetadataRuntime(SetPodMetadataK8s(data, req, k8s), req, rt)

\* part_010:191-195.
SetNode(data, req, node) == SetIfRequested(data, req, "k8s.node", "k8s.node", node)

\* An enricher calls SetPodMetadata (or SetContainerMetadata) on the event.
EwSetPodMetadata ==
    /\ "SetPodMetadata" \notin ewCalls
    /\ \E k8s \in {Nil, K8sMetadata}, rt \in {Nil, RuntimeMetadata} :
         evData' = SetPodMetadata(evData, requested, k8s, rt)
    /\ ewCalls' = ewCalls \cup {"SetPodMetadata"}
    /\ UNCHANGED <<notEw, requested>>

\* An enricher calls SetNode on the event.
EwSetNode ==
    /\ "SetNode" \notin ewCalls
    /\ evData' = SetNode(evData, requested, "node-1")
    /\ ewCalls' = ewCalls \cup {"SetNode"}
    /\ UNCHANGED <<notEw, requested>>

IdleEw ==
    /\ requested = {}
    /\ evData = <<>>
    /\ ewCalls = {}

\* ------------------------------------------------------ ticker goroutines
MaxTicks == 3

\* The goroutines of profiler.go:119-144 and otel_metrics/main.go:93-122.
Tickers == {"runMetrics", "producer"}

\* profiler.go:124-141, main.go:97-117: the ticker case is selected and
\* the goroutine emits.
TickerTick(t) ==
    /\ tkPc[t] = "select"
    /\ tkPackets[t] < MaxTicks
    /\ tkPackets' = [tkPackets EXCEPT ![t] = @ + 1]
    /\ tkLate' = [tkLate EXCEPT ![t] = IF tkDone THEN @ + 1 ELSE @]
    /\ UNCHANGED <<notTk, tkDone, tkPc>>

\* profiler.go:123, main.go:118-119: the Done case is selected; its body
\* is empty (runMetrics) or a break that leaves the select (producer).
TickerDoneCase(t) ==
    /\ tkPc[t] = "select"
    /\ tkDone
    /\ tkPc' = [tkPc EXCEPT ![t] = "afterSelect"]
    /\ UNCHANGED <<notTk, tkDone, tkPackets, tkLate>>

\* profiler.go:121, main.go:95: the enclosing for loop runs the select again.
TickerLoop(t) ==
    /\ tkPc[t] = "afterSelect"
    /\ tkPc' = [tkPc EXCEPT ![t] = "select"]
    /\ UNCHANGED <<notTk, tkDone, tkPackets, tkLate>>

\* The context of the run is cancelled.
TickerCancel ==
    /\ ~tkDone
    /\ tkDone' = TRUE
    /\ UNCHANGED <<notTk, tkPc, tkPackets, tkLate>>

IdleTk ==
    /\ tkDone = FALSE
    /\ tkPc = <<>>
    /\ tkPackets = <<>>
    /\ tkLate = <<>>

\* --------------------------------------------------------- symbol cache
MaxAddrs == 2

Addresses == {1, 2}

AddressLists == UNION {[1..n -> Addresses] : n \in 1..MaxAddrs}

\* /proc/<pid>/exe cannot be opened: the pid has no executable.
NoExe == 0

\* Inodes of the executables the pid may run. Inode 3 is a stripped binary.
Inodes == {1, 2, 3}

\* The zero value of pidValue.ino, also written on every error path.
NoIno == 0

\* elfFile.Symbols() of the executable with the given inode; empty when
\* the binary has no symbol table (an error in the code).
Symtab(ino) ==
    IF ino = 1 THEN <<[Value |-> 0, Size |-> 1, Name |-> "main1"]>>
    ELSE IF ino = 2 THEN <<[Value |-> 0, Size |-> 1, Name |-> "main2"],
                           [Value |-> 1, Size |-> 1, Name |-> "foo2"]>>
    ELSE <<>>

\* symbols.go:136-151: the first symbol whose range holds addr, "" if none.
RECURSIVE FindSymbol(_, _)
FindSymbol(symtab, addr) ==
    IF symtab = <<>> THEN ""
    ELSE IF addr <= Head(symtab).Value \/ addr > Head(symtab).Value + Head(symtab).Size
         THEN FindSymbol(Tail(symtab), addr)
         ELSE Head(symtab).Name

\* i.symbolCache[symbolKey{addr, ino}] = symbolValue{symbolName: name}
CachePut(cache, addr, ino, name) ==
    {e \in cache : ~(e.address = addr /\ e.ino = ino)}
        \cup {[address |-> addr, ino |-> ino, symbolName |-> name]}

CacheHas(cache, addr, ino) == \E e \in cache : e.address = addr /\ e.ino = ino

CacheGet(cache, addr, ino) ==
    (CHOOSE e \in cache : e.address = addr /\ e.ino = ino).symbolName

\* symbols.go:131-162: resolve the addresses not found in the cache and
\* store them under the inode of the executable.
RECURSIVE ResolveInvalids(_, _, _, _, _)
ResolveInvalids(res, cache, addrs, ino, idx) ==
    IF idx > Len(addrs) THEN [res |-> res, cache |-> cache]
    ELSE IF res[idx].valid THEN ResolveInvalids(res, cache, addrs, ino, idx + 1)
    ELSE LET name == FindSymbol(Symtab(ino), addrs[idx])
         IN  ResolveInvalids(
                 [res EXCEPT ![idx] = [valid |-> TRUE, name |-> name]],
                 CachePut(cache, addrs[idx], ino, IF name = "" THEN "-" ELSE name),
                 addrs, ino, idx + 1)

\* The goroutines that symbolise stacks of the pid at the same time.
SymCallers == {"t1", "t2"}

\* A caller that is not inside getSymbols.
NoSymCall == [pc |-> "idle", addrs |-> <<>>, hits |-> <<>>, exe |-> NoExe]

\* symbols.go:55-66: the cached names of the addresses, looked up under the
\* inode read from pidCache (the zero value when the pid has no entry).
CacheHits(pidc, cache, addrs) ==
    LET ino0 == IF pidc.ok THEN pidc.ino ELSE NoIno
    IN  [idx \in 1..Len(addrs) |->
            IF CacheHas(cache, addrs[idx], ino0)
            THEN [valid |-> TRUE, name |-> CacheGet(cache, addrs[idx], ino0)]
            ELSE [valid |-> FALSE, name |-> ""]]

ResNames(r) == [idx \in 1..Len(r) |-> r[idx].name]

\* symbols.go:49-71: the part of getSymbols under the read lock. The call
\* returns from it when the pid is marked or every address is cached;
\* otherwise it goes on, without any lock, to open the executable.
getSymbolsRLocked(c, addrs) ==
    /\ symCalls[c].pc = "idle"
    /\ LET hits == CacheHits(pidCache, symbolCache, addrs)
       IN  IF pidCache.ok /\ pidCache.ino = NoIno
           THEN /\ symLast' = [addresses |-> addrs, res |-> <<>>,
                               err |-> "no symbols found", exe |-> symExe]
                /\ UNCHANGED symCalls
           ELSE IF \A idx \in 1..Len(addrs) : hits[idx].valid
           THEN /\ symLast' = [addresses |-> addrs, res |-> ResNames(hits),
                               err |-> NoError, exe |-> symExe]
                /\ UNCHANGED symCalls
           ELSE /\ symCalls' = [symCalls EXCEPT ![c] =
                                   [pc |-> "open", addrs |-> addrs, hits |-> hits,
                                    exe |-> NoExe]]
                /\ UNCHANGED symLast
    /\ UNCHANGED <<notSym, pidCache, symbolCache, symExe>>

\* symbols.go:73-129: /proc/<pid>/exe is opened and parsed with no lock
\* held; the file stays the one that was opened whatever the pid runs next.
getSymbolsOpen(c) ==
    /\ symCalls[c].pc = "open"
    /\ symCalls' = [symCalls EXCEPT ![c].pc = "lock", ![c].exe = symExe]
    /\ UNCHANGED <<notSym, pidCache, symbolCache, symExe, symLast>>

\* symbols.go:78-84, 122-128, 131-163: the part of getSymbols under the
\* write lock: the pid is marked when the executable could not be read,
\* otherwise the addresses missed in the read phase are resolved and stored.
getSymbolsLocked(c) ==
    /\ symCalls[c].pc = "lock"
    /\ LET call == symCalls[c]
           failed(msg) ==
               /\ pidCache' = [ok |-> TRUE, ino |-> NoIno]
               /\ symLast' = [addresses |-> call.addrs, res |-> <<>>, err |-> msg,
                              exe |-> call.exe]
               /\ UNCHANGED symbolCache
       IN  IF call.exe = NoExe THEN failed("opening process executable")
           ELSE IF Symtab(call.exe) = <<>> THEN failed("reading symbol table")
           ELSE LET r == ResolveInvalids(call.hits, symbolCache, call.addrs, call.exe, 1)
                IN  /\ symbolCache' = r.cache
                    /\ symLast' = [addresses |-> call.addrs, res |-> ResNames(r.res),
                                   err |-> NoError, exe |-> call.exe]
                    /\ UNCHANGED pidCache
    /\ symCalls' = [symCalls EXCEPT ![c] = NoSymCall]
    /\ UNCHANGED <<notSym, symExe>>

\* The pid executes another binary, or exits.
SymExec ==
    /\ symExe' \in (Inodes \cup {NoExe}) \ {symExe}
    /\ UNCHANGED <<notSym, pidCache, symbolCache, symCalls, symLast>>

IdleSym ==
    /\ pidCache = <<>>
    /\ symCalls = <<>>
    /\ symbolCache = {}
    /\ symExe = NoExe
    /\ symLast = <<>>

\* ------------------------------------------------------ per-node streams
MaxNodes == 2

MaxEvents == 2

\* The gadget pods, one per node, in the order of the pod list.
Nodes == 1..MaxNodes

\* How the client reaches the nodes: NewK8SExecConn (part_012),
\* genericStreams over a port forward (trace/exec.go), deployCRs.
Transports == {"k8sExec", "portForward", "deployCR"}

NodeStream(state, pod, events, report) ==
    [state |-> state, pod |-> pod, events |-> events, report |-> report]

\* trace/exec.go:176-188: the goroutine reads the loop variable pod when it
\* runs, which the loop may have advanced by then; NewK8SExecConn and
\* deployCR receive the pod by value.
PodSeenBy(transport, n) ==
    IF transport = "portForward" THEN {m \in Nodes : m >= n} ELSE {n}

\* part_012:42-100, trace/exec.go:183-258, cr-builder.go:42-48: the
\* connection of node n is set up; ok is whether the setup succeeds.
NodeConnect(n) ==
    /\ ndProc = "running"
    /\ ndStream[n].state = "idle"
    /\ \E ok \in BOOLEAN, p \in PodSeenBy(ndTransport, n) :
         ndStream' = [ndStream EXCEPT ![n] =
            IF ~ok
            THEN NodeStream("failed", p, 0,
                            IF ndTransport = "portForward" THEN "printed"
                            ELSE IF ndTransport = "deployCR" THEN "logged"
                            ELSE "returned")
            ELSE NodeStream(IF ndTransport = "deployCR" THEN "deployed" ELSE "streaming",
                            p, 0, "")]
    /\ UNCHANGED <<notNd, ndTransport, ndProc>>

\* trace/exec.go:260-270: an event of node n is received and printed.
NodeRecv(n) ==
    /\ ndProc = "running"
    /\ ndStream[n].state = "streaming"
    /\ ndStream[n].events < MaxEvents
    /\ ndStream' = [ndStream EXCEPT ![n].events = @ + 1]
    /\ UNCHANGED <<notNd, ndTransport, ndProc>>

\* part_012:88-99: exec.Stream returns an error and the goroutine panics;
\* trace/exec.go:184-187, 265-267: getTraceStream returns the error and the
\* goroutine prints it.
NodeFail(n) ==
    /\ ndProc = "running"
    /\ ndStream[n].state = "streaming"
    /\ IF ndTransport = "k8sExec"
       THEN /\ ndStream' = [ndStream EXCEPT ![n].state = "failed", ![n].report = "panic"]
            /\ ndProc' = "panicked"
       ELSE /\ ndStream' = [ndStream EXCEPT ![n].state = "failed", ![n].report = "printed"]
            /\ UNCHANGED ndProc
    /\ UNCHANGED <<notNd, ndTransport>>

\* trace/exec.go:262-264: the stream of node n ends with io.EOF.
NodeEOF(n) ==
    /\ ndProc = "running"
    /\ ndStream[n].state = "streaming"
    /\ ndStream' = [ndStream EXCEPT ![n].state = "ended"]
    /\ UNCHANGED <<notNd, ndTransport, ndProc>>

\* trace/exec.go:192-194: a signal ends the command.
NodeSignal ==
    /\ ndProc = "running"
    /\ ndProc' = "exited"
    /\ UNCHANGED <<notNd, ndTransport, ndStream>>

IdleNd ==
    /\ ndTransport = ""
    /\ ndProc = "off"
    /\ ndStream = <<>>

\* ---------------------------------------------------- global operator Init
MaxCallers == 3

Callers == 1..MaxCallers

\* The Init implementations: an enricher as RegisterEnricher stores it
\* (part_006:112, not wrapped), an enricherWrapper (part_006:95-107), and
\* otelMetricsOperator (otel-metrics.go:49-71).
InitKinds == {"enricher", "enricherWrapper", "otelMetrics"}

OiCaller(op, at) == [op |-> op, pc |-> at]

\* gadgetrunner.go:112, part_006:139-140: a gadget run (or another caller)
\* invokes Init of the operator. The registered enricher runs its Init; the
\* wrapper runs it under initOnce.
OiCallInit(c, op) ==
    /\ oiCaller[c].pc = "idle"
    /\ IF op = "enricher"
       THEN /\ oiBodyRuns' = [oiBodyRuns EXCEPT ![op] = @ + 1]
            /\ oiCaller' = [oiCaller EXCEPT ![c] = OiCaller(op, "done")]
            /\ UNCHANGED <<oiInitialized, oiOnce>>
       ELSE IF op = "enricherWrapper"
       THEN /\ oiBodyRuns' = [oiBodyRuns EXCEPT ![op] = IF oiOnce THEN @ ELSE @ + 1]
            /\ oiOnce' = TRUE
            /\ oiCaller' = [oiCaller EXCEPT ![c] = OiCaller(op, "done")]
            /\ UNCHANGED oiInitialized
       ELSE /\ oiCaller' = [oiCaller EXCEPT ![c] = OiCaller(op, "check")]
            /\ UNCHANGED <<oiInitialized, oiOnce, oiBodyRuns>>
    /\ UNCHANGED notOi

\* otel-metrics.go:50-52: if m.initialized { return nil }
OiCheckInitialized(c) ==
    /\ oiCaller[c].pc = "check"
    /\ oiCaller' = [oiCaller EXCEPT ![c].pc = IF oiInitialized THEN "done" ELSE "set"]
    /\ UNCHANGED <<notOi, oiInitialized, oiOnce, oiBodyRuns>>

\* otel-metrics.go:53-70: m.initialized = true and the rest of Init.
OiSetInitialized(c) ==
    /\ oiCaller[c].pc = "set"
    /\ oiInitialized' = TRUE
    /\ oiBodyRuns' = [oiBodyRuns EXCEPT ![oiCaller[c].op] = @ + 1]
    /\ oiCaller' = [oiCaller EXCEPT ![c].pc = "done"]
    /\ UNCHANGED <<notOi, oiOnce>>

IdleOi ==
    /\ oiInitialized = FALSE
    /\ oiOnce = FALSE
    /\ oiBodyRuns = <<>>
    /\ oiCaller = <<>>

\* -------------------------------------------------------- otel metrics
MaxPackets == 10

\* Values of the key field (node) and of the counter field (ctr).
MetricKeys == {"node1", "node2"}

\* Numbers up to the width of uint64 and beyond, written hi * 2^62 + lo
\* with 0 <= lo < 2^62: 2^63 is Num(2, 0) and 2^64 is Num(4, 0).
Num(hi, lo) == [hi |-> hi, lo |-> lo]

\* The sum of two numbers; lo stays far below 2^62 for the values and the
\* number of packets used here.
Plus(a, b) == Num(a.hi + b.hi, a.lo + b.lo)

\* The value of an int64 whose bits are those of n: n modulo 2^64, in
\* the range -2^63 .. 2^63 - 1.
WrapInt64(n) == Num(((n.hi + 2) % 4) - 2, n.lo)

\* Kinds of the field annotated metrics.type=counter.
CtrKinds == {"Uint64", "Uint32", "Float64", "String"}

\* Values the counter field of a packet may hold: 1, 2 and, for a
\* Kind_Uint64 field, 2^63.
CtrValues(kind) ==
    IF kind = "Uint64" THEN {Num(0, 1), Num(0, 2), Num(2, 0)}
    ELSE {Num(0, 1), Num(0, 2)}

IntKinds == {"Int8", "Int16", "Int32", "Int64", "Uint8", "Uint16", "Uint32", "Uint64"}

FloatKinds == {"Float32", "Float64"}

\* otel-metrics.go:112-159: asInt64; v is the value the accessor reads and
\* int64(v) keeps its bits, so a Kind_Uint64 value of 2^63 or more comes
\* out negative.
asInt64(kind, v) == IF kind \in IntKinds THEN WrapInt64(v) ELSE Num(0, 0)

\* otel-metrics.go:161-178.
asFloat64(kind, v) == IF kind \in FloatKinds THEN v ELSE Num(0, 0)

\* otel-metrics.go:211-243: the instrument addValCtrFunc creates, or the
\* error for an unsupported kind.
addValCtrFunc(kind) ==
    IF kind \in IntKinds THEN [instrument |-> "Int64Counter", err |-> NoError]
    ELSE IF kind \in FloatKinds THEN [instrument |-> "Float64Counter", err |-> NoError]
    ELSE [instrument |-> "", err |-> "unsupported field type for metrics value"]

\* otel-metrics.go:228-230, 238-240: the amount ctr.Add receives.
CtrAmount(kind, v) == IF kind \in FloatKinds THEN asFloat64(kind, v) ELSE asInt64(kind, v)

\* otel-metrics.go:229, 239: ctr.Add(ctx, amount, ...) on the counter of
\* the key set. An Int64Counter holds an int64. The API leaves a negative
\* increment of a counter undefined: recorded says whether it is added.
CtrAdd(counters, kind, key, amount, recorded) ==
    IF amount.hi < 0 /\ ~recorded THEN counters
    ELSE [counters EXCEPT ![key] = IF kind \in IntKinds
                                     THEN WrapInt64(Plus(@, amount))
                                     ELSE Plus(@, amount)]

\* otel-metrics.go:245-255: Collect adds the packet's value to the counter
\* of the packet's key set.
Collect(counters, kind, key, v, recorded) ==
    CtrAdd(counters, kind, key, CtrAmount(kind, v), recorded)

\* otel-metrics.go:257-294: init registers a collector for an enabled data
\* source, or fails on an unsupported counter field.
MtInit ==
    /\ mtState = "new"
    /\ mtState' = IF ~mtEnabled THEN "noCollector"
                  ELSE IF addValCtrFunc(mtKind).err # NoError THEN "initError"
                  ELSE "collector"
    /\ UNCHANGED <<notMt, mtEnabled, mtKind, mtCounters, mtSum, mtCount>>

\* otel-metrics.go:296-306: PreStart subscribes the collectors; the gadget
\* then starts emitting.
MtPreStart ==
    /\ mtState \in {"collector", "noCollector"}
    /\ mtState' = IF mtState = "collector" THEN "subscribed" ELSE "unsubscribed"
    /\ UNCHANGED <<notMt, mtEnabled, mtKind, mtCounters, mtSum, mtCount>>

\* The data source emits a packet; a subscribed collector collects it.
MtEmit(key, v) ==
    /\ mtState \in {"subscribed", "unsubscribed"}
    /\ mtCount[key] < MaxPackets
    /\ mtCount' = [mtCount EXCEPT ![key] = @ + 1]
    /\ mtSum' = [mtSum EXCEPT ![key] = Plus(@, v)]
    /\ IF mtState = "subscribed"
       THEN \E recorded \in BOOLEAN :
              /\ (CtrAmount(mtKind, v).hi >= 0) => recorded
              /\ mtCounters' = Collect(mtCounters, mtKind, key, v, recorded)
       ELSE UNCHANGED mtCounters
    /\ UNCHANGED <<notMt, mtEnabled, mtKind, mtState>>

IdleMt ==
    /\ mtEnabled = FALSE
    /\ mtKind = ""
    /\ mtState = "off"
    /\ mtCounters = <<>>
    /\ mtSum = <<>>
    /\ mtCount = <<>>

\* --------------------------------------------------------------- params
\* Strings a Param can hold or be given.
ParamValues == {"", "a", "b", "1"}

\* Custom validators: none, one that rejects "b", one that rejects "".
Validators == {"none", "rejectB", "rejectEmpty"}

TypeHints == {"", "int"}

PossibleValueLists == {{}, {"a"}, {"a", "1"}}

\* The error of Param.Validator(val); NoError for a nil validator too.
Validator(p, val) ==
    IF p.Validator = "rejectB" /\ val = "b" THEN "validator error"
    ELSE IF p.Validator = "rejectEmpty" /\ val = "" THEN "validator error"
    ELSE NoError

\* The validator registered for a type hint: the Int validator accepts
\* decimal integers; a hint without a registered validator accepts all.
typeHintValidators(hint, value) ==
    IF hint = "int" /\ value # "1" THEN "invalid int" ELSE NoError

\* params.go:166-174.
String(p) == IF p.assigned THEN p.value ELSE p.DefaultValue

\* params.go:83-108.
PreValidate(p, value) ==
    IF value # ""
    THEN IF p.PossibleValues # {} /\ value \in p.PossibleValues THEN NoError
         ELSE IF typeHintValidators(p.TypeHint, value) # NoError THEN "invalid value"
         ELSE IF Validator(p, value) # NoError THEN "invalid value"
         ELSE NoError
    ELSE IF p.IsMandatory THEN "expected value"
    ELSE NoError

\* params.go:111-113.
Validate(p) == PreValidate(p, String(p))

\* Mutant of Set: the param is marked assigned but val is not stored.
SetAssignOnly(p, val) ==
    IF Validator(p, val) # NoError
    THEN [p |-> p, err |-> Validator(p, val)]
    ELSE [p |-> [p EXCEPT !.assigned = TRUE], err |-> NoError]

\* params.go:176-186.
Set(p, val) ==
    IF Validator(p, val) # NoError
    THEN [p |-> p, err |-> Validator(p, val)]
    ELSE [p |-> [p EXCEPT !.assigned = TRUE, !.value = val], err |-> NoError]

\* p.Set(val)
PmSet(val) ==
    /\ pm' = Set(pm, val).p
    /\ pmLast' = [op |-> "Set", val |-> val, err |-> Set(pm, val).err]
    /\ UNCHANGED notPm

\* p.Set(p.String())
PmSetString ==
    /\ pm' = Set(pm, String(pm)).p
    /\ pmLast' = [op |-> "SetString", val |-> String(pm), err |-> Set(pm, String(pm)).err]
    /\ UNCHANGED notPm

\* p.PreValidate(value)
PmPreValidate(value) ==
    /\ pmLast' = [op |-> "PreValidate", val |-> value, err |-> PreValidate(pm, value)]
    /\ UNCHANGED <<notPm, pm>>

\* p.Validate()
PmValidate ==
    /\ pmLast' = [op |-> "Validate", val |-> String(pm), err |-> Validate(pm)]
    /\ UNCHANGED <<notPm, pm>>

IdlePm ==
    /\ pm = <<>>
    /\ pmLast = <<>>

\* ------------------------------------------- config map store work queue
MaxCmEvents == 2

\* part_023:207: the number of re-queues after which handleErr gives up.
MaxRetries == 5

\* What put the key into the queue: an informer event or a rate-limited
\* re-queue.
WqCauses == {"event", "retry"}

\* part_023:166-194: the error of reconcile for a well-formed key. getErr:
\* the store lookup fails; rmErr: removing the gadget of a deleted config
\* map fails. The result of RunGadget is not looked at.
reconcile(exists, getErr, rmErr) ==
    IF getErr THEN "store error"
    ELSE IF ~exists /\ rmErr THEN "remove error"
    ELSE NoError

\* part_023:197-219: handleErr; failures is queue.NumRequeues(key), which
\* AddRateLimited increases and Forget resets.
handleErr(err, failures) ==
    IF err = NoError THEN [failures |-> 0, requeue |-> FALSE, outcome |-> "synced"]
    ELSE IF failures < MaxRetries
    THEN [failures |-> failures + 1, requeue |-> TRUE, outcome |-> "requeued"]
    ELSE [failures |-> 0, requeue |-> FALSE, outcome |-> "gaveUp"]

\* part_023:93-115: an informer handler adds the key to the queue; a key
\* being processed is marked dirty and queued again by Done.
WqInformerEvent(kind) ==
    /\ wqEvents < MaxCmEvents
    /\ (kind = "add") = ~wqExists
    /\ wqExists' = (kind # "delete")
    /\ wqEvents' = wqEvents + 1
    /\ IF wqProc.active
       THEN /\ wqDirty' = wqDirty \cup {"event"}
            /\ UNCHANGED wqQueue
       ELSE /\ wqQueue' = wqQueue \cup {"event"}
            /\ UNCHANGED wqDirty
    /\ UNCHANGED <<notWq, wqDelayed, wqProc, wqFailures, wqLast>>

\* The delay of AddRateLimited (part_023:212) is over: the key is added.
WqDelayElapsed ==
    /\ wqDelayed
    /\ wqDelayed' = FALSE
    /\ IF wqProc.active
       THEN /\ wqDirty' = wqDirty \cup {"retry"}
            /\ UNCHANGED wqQueue
       ELSE /\ wqQueue' = wqQueue \cup {"retry"}
            /\ UNCHANGED wqDirty
    /\ UNCHANGED <<notWq, wqProc, wqFailures, wqExists, wqEvents, wqLast>>

\* part_023:147-156: processNextItem takes the key from the queue; the
\* key is being processed until the deferred Done.
ProcessNextItemGet ==
    /\ wqQueue # {}
    /\ ~wqProc.active
    /\ wqProc' = [active |-> TRUE, by |-> wqQueue, pc |-> "reconcile", err |-> NoError]
    /\ wqQueue' = {}
    /\ UNCHANGED <<notWq, wqDelayed, wqDirty, wqFailures, wqExists, wqEvents, wqLast>>

\* part_023:159: err := s.reconcile(key), on the store as it is now.
ProcessNextItemReconcile ==
    /\ wqProc.active
    /\ wqProc.pc = "reconcile"
    /\ \E getErr \in BOOLEAN, rmErr \in BOOLEAN :
         wqProc' = [wqProc EXCEPT !.pc = "handleErr",
                                  !.err = reconcile(wqExists, getErr, rmErr)]
    /\ UNCHANGED <<notWq, wqQueue, wqDelayed, wqDirty, wqFailures, wqExists, wqEvents,
                   wqLast>>

\* part_023:162: s.handleErr(err, key).
ProcessNextItemHandleErr ==
    /\ wqProc.active
    /\ wqProc.pc = "handleErr"
    /\ LET h == handleErr(wqProc.err, wqFailures)
       IN  /\ wqFailures' = h.failures
           /\ wqDelayed' = (wqDelayed \/ h.requeue)
           /\ wqLast' = [outcome |-> h.outcome, by |-> wqProc.by, err |-> wqProc.err]
    /\ wqProc' = [wqProc EXCEPT !.pc = "done"]
    /\ UNCHANGED <<notWq, wqQueue, wqDirty, wqExists, wqEvents>>

\* part_023:156: the deferred s.queue.Done(key); a key that was added
\* while it was being processed is queued again.
ProcessNextItemDone ==
    /\ wqProc.active
    /\ wqProc.pc = "done"
    /\ wqProc' = [active |-> FALSE, by |-> {}, pc |-> "idle", err |-> NoError]
    /\ wqQueue' = wqDirty
    /\ wqDirty' = {}
    /\ UNCHANGED <<notWq, wqDelayed, wqFailures, wqExists, wqEvents, wqLast>>

IdleWq ==
    /\ wqQueue = {}
    /\ wqDelayed = FALSE
    /\ wqProc = <<>>
    /\ wqDirty = {}
    /\ wqFailures = 0
    /\ wqExists = FALSE
    /\ wqEvents = 0
    /\ wqLast = <<>>

\* ------------------------------------------------ WebSocket connection
MaxStarts == 3

\* Request IDs a client uses on one connection.
RequestIds == {"g1", "g2"}

\* A lookup in sConn.gadgets that finds no entry.
NoCtx == 0

\* btfutils.go:353-365: a new gadget context, not cancelled, whose run
\* goroutine has not returned from RunGadget (ended) nor finished (exited).
NewGadgetContext(id) ==
    [id |-> id, cancelled |-> FALSE, ended |-> FALSE, exited |-> FALSE]

\* btfutils.go:270-399: startGadget under gadgetLock. ok = FALSE: the
\* gadget is not found or its parameters are rejected.
startGadget(id) ==
    /\ Len(wsCtxs) < MaxStarts
    /\ IF wsGadgets[id] # NoCtx
       THEN /\ wsLast' = [op |-> "start", id |-> id, err |-> "already exists"]
            /\ UNCHANGED <<wsGadgets, wsCtxs>>
       ELSE \E ok \in BOOLEAN :
              IF ok
              THEN /\ wsCtxs' = Append(wsCtxs, NewGadgetContext(id))
                   /\ wsGadgets' = [wsGadgets EXCEPT ![id] = Len(wsCtxs) + 1]
                   /\ wsLast' = [op |-> "start", id |-> id, err |-> NoError]
              ELSE /\ wsLast' = [op |-> "start", id |-> id, err |-> "gadget not found"]
                   /\ UNCHANGED <<wsGadgets, wsCtxs>>
    /\ UNCHANGED notWs

\* btfutils.go:247-257: stopGadget under gadgetLock.
stopGadget(id) ==
    /\ IF wsGadgets[id] # NoCtx
       THEN /\ wsCtxs' = [wsCtxs EXCEPT ![wsGadgets[id]].cancelled = TRUE]
            /\ wsGadgets' = [wsGadgets EXCEPT ![id] = NoCtx]
       ELSE UNCHANGED <<wsGadgets, wsCtxs>>
    /\ wsLast' = [op |-> "stop", id |-> id, err |-> NoError]
    /\ UNCHANGED notWs

\* btfutils.go:373-381: RunGadget returns in the run goroutine of context
\* h; the deferred function registered last runs first and deletes the
\* entry of the request ID under gadgetLock.
RunGoroutineEnds(h) ==
    /\ ~wsCtxs[h].ended
    /\ wsGadgets' = [wsGadgets EXCEPT ![wsCtxs[h].id] = NoCtx]
    /\ wsCtxs' = [wsCtxs EXCEPT ![h].ended = TRUE]
    /\ wsLast' = [op |-> "ended", id |-> wsCtxs[h].id, err |-> NoError]
    /\ UNCHANGED notWs

\* btfutils.go:372: after the lock is released the run goroutine of
\* context h runs its first deferred call, gadgetCtx.Cancel(), and exits.
RunGoroutineCancel(h) ==
    /\ wsCtxs[h].ended
    /\ ~wsCtxs[h].exited
    /\ wsCtxs' = [wsCtxs EXCEPT ![h].cancelled = TRUE, ![h].exited = TRUE]
    /\ wsLast' = [op |-> "exited", id |-> wsCtxs[h].id, err |-> NoError]
    /\ UNCHANGED <<notWs, wsGadgets>>

IdleWs ==
    /\ wsGadgets = <<>>
    /\ wsCtxs = <<>>
    /\ wsLast = <<>>

\* ------------------------------------------- per-netns tracer (links)
MaxOps == 4

\* Keys of the attachments map (namespace/podname).
LinkKeys == {"k1", "k2"}

\* A lookup in Tracer.attachments that finds no entry.
NoLink == [users |-> 0, sockFd |-> -1]

\* How far Attach gets for a new key: "ok", or the step that fails.
\* "load": loading the BPF objects fails before a socket exists; "sock":
\* OpenRawSock fails; "prog": attaching the program to the open socket
\* fails.
AttachOutcomes == {"ok", "load", "sock", "prog"}

\* Mutant of Detach: the link is released without counting its users.
DetachAlwaysRelease(atts, socks, key) ==
    IF atts[key] # NoLink
    THEN [atts |-> [atts EXCEPT ![key] = NoLink],
          socks |-> socks \ {atts[key].sockFd}, err |-> NoError]
    ELSE [atts |-> atts, socks |-> socks, err |-> "key not attached"]

\* network-graph/tracer/tracer.go:339-355, tcpdump/tracer/tracer.go:70-73,
\* 129-139: Detach and releaseLink.
Detach(atts, socks, key) ==
    IF atts[key] # NoLink
    THEN IF atts[key].users - 1 = 0
         THEN [atts |-> [atts EXCEPT ![key] = NoLink],
               socks |-> socks \ {atts[key].sockFd}, err |-> NoError]
         ELSE [atts |-> [atts EXCEPT ![key].users = @ - 1],
               socks |-> socks, err |-> NoError]
    ELSE [atts |-> atts, socks |-> socks, err |-> "key not attached"]

\* network-graph/tracer/tracer.go:149-210, tcpdump/tracer/tracer.go:81-127:
\* Attach; fd is the descriptor OpenRawSock would return. On an error the
\* deferred function closes the socket if it was opened.
Attach(atts, socks, key, fd, outcome) ==
    IF atts[key] # NoLink
    THEN [atts |-> [atts EXCEPT ![key].users = @ + 1], socks |-> socks, err |-> NoError]
    ELSE IF outcome = "ok"
    THEN [atts |-> [atts EXCEPT ![key] = [users |-> 1, sockFd |-> fd]],
          socks |-> socks \cup {fd}, err |-> NoError]
    ELSE [atts |-> atts, socks |-> socks,
          err |-> IF outcome = "load" THEN "failed to create BPF collection"
                  ELSE IF outcome = "sock" THEN "failed to open raw socket"
                  ELSE "failed to attach BPF program"]

\* t.Attach(key, pid)
TrAttach(key, outcome) ==
    /\ trOps < MaxOps
    /\ LET r == Attach(attachments, openSocks, key, nextFd, outcome)
       IN  /\ attachments' = r.atts
           /\ openSocks' = r.socks
           /\ nextFd' = IF attachments[key] = NoLink /\ outcome \in {"ok", "prog"}
                        THEN nextFd + 1 ELSE nextFd
           /\ attachOk' = IF r.err = NoError
                          THEN [attachOk EXCEPT ![key] = @ + 1] ELSE attachOk
           /\ trLast' = [op |-> "Attach", key |-> key, err |-> r.err]
    /\ trOps' = trOps + 1
    /\ UNCHANGED <<notTr, detachCalls, closeReleased>>

\* t.Detach(key)
TrDetach(key) ==
    /\ trOps < MaxOps
    /\ LET r == Detach(attachments, openSocks, key)
       IN  /\ attachments' = r.atts
           /\ openSocks' = r.socks
           /\ trLast' = [op |-> "Detach", key |-> key, err |-> r.err]
           /\ detachCalls' = IF r.err = NoError
                             THEN [detachCalls EXCEPT ![key] = @ + 1] ELSE detachCalls
    /\ trOps' = trOps + 1
    /\ UNCHANGED <<notTr, nextFd, attachOk, closeReleased>>

\* network-graph/tracer/tracer.go:357-365, tcpdump/tracer/tracer.go:75-79:
\* Close releases the link of every key, whatever its number of users:
\* the socket is closed and the entry deleted. closeReleased records the
\* successful Attach calls that no Detach call had matched.
TrClose ==
    /\ trOps < MaxOps
    /\ attachments' = [k \in LinkKeys |-> NoLink]
    /\ openSocks' = openSocks \ {attachments[k].sockFd :
                                     k \in {j \in LinkKeys : attachments[j] # NoLink}}
    /\ closeReleased' = [k \in LinkKeys |-> attachOk[k] - detachCalls[k]]
    /\ trLast' = [op |-> "Close", key |-> "", err |-> NoError]
    /\ trOps' = trOps + 1
    /\ UNCHANGED <<notTr, nextFd, attachOk, detachCalls>>

IdleTr ==
    /\ attachments = <<>>
    /\ openSocks = {}
    /\ nextFd = 0
    /\ trOps = 0
    /\ attachOk = <<>>
    /\ detachCalls = <<>>
    /\ closeReleased = <<>>
    /\ trLast = <<>>

\* ------------------------------------------------------ specifications
\* The parts of the model a specification does not exercise stay idle.
IdleRun ==
    /\ registry = [n \in Names |-> <<>>]
    /\ canEnrich = {}
    /\ gType = TypeTrace
    /\ instantiable = FALSE
    /\ startStop = "none"
    /\ hasClose = FALSE
    /\ hasResult = FALSE
    /\ pc = "off"
    /\ rEnrichers = <<>>
    /\ calls = <<>>
    /\ ctxDone = FALSE
    /\ gadgetResult = <<>>
    /\ rResult = <<>>
    /\ retErr = [msg |-> NoError, who |-> ""]

IdleAtt ==
    /\ manager = "LocalManager"
    /\ igManagerNil = TRUE
    /\ host = FALSE
    /\ selName = ""
    /\ isSetter = FALSE
    /\ isAttacher = FALSE
    /\ collection = {}
    /\ gone = {}
    /\ subs = ""
    /\ everMatching = {}
    /\ initial = <<>>
    /\ lSubKey = ""
    /\ lMntns = ""
    /\ mntnsMaps = {}
    /\ gcalls = <<>>
    /\ attached = {}
    /\ apc = "off"
    /\ aErr = NoError

IdleHost ==
    /\ gadgetRuns = <<>>
    /\ runs = <<>>
    /\ threads = <<>>

IdleMgr ==
    /\ gadgetInstances = <<>>
    /\ files = <<>>
    /\ usedIds = {}
    /\ lastCall = <<>>

InitCommon ==
    /\ pc = "idle"
    /\ rEnrichers = <<>>
    /\ calls = <<>>
    /\ ctxDone = FALSE
    /\ gadgetResult = <<>>
    /\ rResult = <<>>
    /\ retErr = [msg |-> NoError, who |-> ""]

\* Sorting: every registry over Names, every CanEnrich filter.
InitSort ==
    /\ registry \in [Names -> DepLists]
    /\ canEnrich \in SUBSET Names
    /\ gType \in {TypeTrace, TypeOther}
    /\ instantiable \in BOOLEAN
    /\ startStop = "std"
    /\ hasClose = TRUE
    /\ hasResult = TRUE
    /\ InitCommon
    /\ IdleAtt /\ IdleHost /\ IdleMgr /\ IdleEw /\ IdleTk /\ IdleSym /\ IdleNd /\ IdleOi /\ IdleMt /\ IdlePm /\ IdleWq /\ IdleWs /\ IdleTr

NextSort == RunGadget \/ InitAll \/ RuntimeRunGadget

SpecSort == InitSort /\ [][NextSort]_vars

\* The registries of the run lifecycle: no dependencies, and the chain of
\* enrichers_test.go (enricher2 on enricher1, enricher3 on enricher2).
NoDeps == [n \in Names |-> <<>>]
Chain == [n \in Names |-> IF n = "e2" THEN <<"e1">> ELSE IF n = "e3" THEN <<"e2">> ELSE <<>>]

InitRun ==
    /\ registry \in {NoDeps, Chain}
    /\ canEnrich \in SUBSET Names
    /\ gType \in GadgetTypes
    /\ instantiable \in BOOLEAN
    /\ startStop \in {"none", "alt", "std"}
    /\ hasClose \in BOOLEAN
    /\ hasResult \in BOOLEAN
    /\ InitCommon
    /\ IdleAtt /\ IdleHost /\ IdleMgr /\ IdleEw /\ IdleTk /\ IdleSym /\ IdleNd /\ IdleOi /\ IdleMt /\ IdlePm /\ IdleWq /\ IdleWs /\ IdleTr

Next ==
    \/ RunGadget
    \/ InitAll
    \/ RuntimeRunGadget
    \/ PreGadgetRun
    \/ StartGadget
    \/ WaitDone
    \/ DeferStop
    \/ DeferPostGadgetRun
    \/ DeferCloseResult
    \/ CancelContext

Spec == InitRun /\ [][Next]_vars

\* The operator instance of one run against a live container collection.
InitAttach ==
    /\ manager \in {"LocalManager", "KubeManager"}
    /\ igManagerNil \in BOOLEAN
    /\ (manager = "KubeManager") => ~igManagerNil
    /\ host \in BOOLEAN
    /\ (manager = "KubeManager") => ~host
    /\ selName \in {"", "demo"}
    /\ isSetter \in BOOLEAN
    /\ isAttacher \in BOOLEAN
    /\ collection \in SUBSET Containers
    /\ igManagerNil => collection = {}
    /\ gone = {}
    /\ subs = ""
    /\ everMatching = {}
    /\ initial = <<>>
    /\ lSubKey = ""
    /\ lMntns = ""
    /\ mntnsMaps = {}
    /\ gcalls = <<>>
    /\ attached = {}
    /\ apc = "idle"
    /\ aErr = NoError
    /\ IdleRun /\ IdleHost /\ IdleMgr /\ IdleEw /\ IdleTk /\ IdleSym /\ IdleNd /\ IdleOi /\ IdleMt /\ IdlePm /\ IdleWq /\ IdleWs /\ IdleTr

NextAttach ==
    \/ OpPreGadgetRun
    \/ OpPrepare
    \/ OpAttachInitial
    \/ \E c \in Containers : AddContainer(c)
    \/ \E c \in Containers : RemoveContainer(c)
    \/ OpPostGadgetRun

SpecAttach == InitAttach /\ [][NextAttach]_vars

\* Concurrent callers of the persistent gadget host.
InitHost ==
    /\ gadgetRuns = [id \in Ids |-> NoRun]
    /\ runs = <<>>
    /\ threads = <<>>
    /\ IdleRun /\ IdleAtt /\ IdleMgr /\ IdleEw /\ IdleTk /\ IdleSym /\ IdleNd /\ IdleOi /\ IdleMt /\ IdlePm /\ IdleWq /\ IdleWs /\ IdleTr

NextHost ==
    \/ \E id \in Ids : AddGadgetRunRegister(id)
    \/ \E t \in 1..Len(threads) : AddGadgetRunInit(t)
    \/ \E t \in 1..Len(threads) : AddGadgetRunGo(t)
    \/ \E id \in Ids : StopAndRemoveLookup(id)
    \/ \E t \in 1..Len(threads) : StopAndRemoveStop(t)
    \/ \E h \in 1..Len(runs) : GadgetRunEnds(h)

SpecHost == InitHost /\ [][NextHost]_vars

\* The instance manager behind its file store.
InitMgr ==
    /\ gadgetInstances = <<>>
    /\ files = <<>>
    /\ usedIds = {}
    /\ lastCall = Call("New", "", "", NoError)
    /\ IdleRun /\ IdleAtt /\ IdleHost /\ IdleEw /\ IdleTk /\ IdleSym /\ IdleNd /\ IdleOi /\ IdleMt /\ IdlePm /\ IdleWq /\ IdleWs /\ IdleTr

NextMgr ==
    \/ MgrRunOCIGadget
    \/ MgrStopOCIGadget
    \/ InstallOCIGadgetInstance
    \/ RemoveOCIGadgetInstance
    \/ FileStoreInit

SpecMgr == InitMgr /\ [][NextMgr]_vars

\* One event of a data source whose sinks requested any set of fields.
InitEw ==
    /\ requested \in SUBSET IdentityFields
    /\ evData = [f \in IdentityFields |-> Unset]
    /\ ewCalls = {}
    /\ IdleRun /\ IdleAtt /\ IdleHost /\ IdleMgr /\ IdleTk /\ IdleSym /\ IdleNd /\ IdleOi /\ IdleMt /\ IdlePm /\ IdleWq /\ IdleWs /\ IdleTr

NextEw == EwSetPodMetadata \/ EwSetNode

SpecEw == InitEw /\ [][NextEw]_vars

\* The ticker goroutines of one run, started with a live context.
InitTk ==
    /\ tkDone = FALSE
    /\ tkPc = [t \in Tickers |-> "select"]
    /\ tkPackets = [t \in Tickers |-> 0]
    /\ tkLate = [t \in Tickers |-> 0]
    /\ IdleRun /\ IdleAtt /\ IdleHost /\ IdleMgr /\ IdleEw /\ IdleSym /\ IdleNd /\ IdleOi /\ IdleMt /\ IdlePm /\ IdleWq /\ IdleWs /\ IdleTr

NextTk ==
    \/ \E t \in Tickers : TickerTick(t)
    \/ \E t \in Tickers : TickerDoneCase(t)
    \/ \E t \in Tickers : TickerLoop(t)
    \/ TickerCancel

SpecTk == InitTk /\ [][NextTk]_vars

\* The symbol cache of one ebpf instance, looked up for one pid.
InitSym ==
    /\ pidCache = [ok |-> FALSE, ino |-> NoIno]
    /\ symbolCache = {}
    /\ symExe \in Inodes \cup {NoExe}
    /\ symCalls = [c \in SymCallers |-> NoSymCall]
    /\ symLast = [addresses |-> <<>>, res |-> <<>>, err |-> NoError, exe |-> NoExe]
    /\ IdleRun /\ IdleAtt /\ IdleHost /\ IdleMgr /\ IdleEw /\ IdleTk /\ IdleNd /\ IdleOi /\ IdleMt /\ IdlePm /\ IdleWq /\ IdleWs /\ IdleTr

NextSym ==
    \/ \E c \in SymCallers, addrs \in AddressLists : getSymbolsRLocked(c, addrs)
    \/ \E c \in SymCallers : getSymbolsOpen(c)
    \/ \E c \in SymCallers : getSymbolsLocked(c)
    \/ SymExec

SpecSym == InitSym /\ [][NextSym]_vars

\* A multi-node run of the client.
InitNd ==
    /\ ndTransport \in Transports
    /\ ndProc = "running"
    /\ ndStream = [n \in Nodes |-> NodeStream("idle", n, 0, "")]
    /\ IdleRun /\ IdleAtt /\ IdleHost /\ IdleMgr /\ IdleEw /\ IdleTk /\ IdleSym /\ IdleOi /\ IdleMt /\ IdlePm /\ IdleWq /\ IdleWs /\ IdleTr

NextNd ==
    \/ \E n \in Nodes : NodeConnect(n)
    \/ \E n \in Nodes : NodeRecv(n)
    \/ \E n \in Nodes : NodeFail(n)
    \/ \E n \in Nodes : NodeEOF(n)
    \/ NodeSignal

SpecNd == InitNd /\ [][NextNd]_vars

\* Callers of the operators' Init in one process.
InitOi ==
    /\ oiInitialized = FALSE
    /\ oiOnce = FALSE
    /\ oiBodyRuns = [op \in InitKinds |-> 0]
    /\ oiCaller = [c \in Callers |-> OiCaller("", "idle")]
    /\ IdleRun /\ IdleAtt /\ IdleHost /\ IdleMgr /\ IdleEw /\ IdleTk /\ IdleSym /\ IdleNd /\ IdleMt /\ IdlePm /\ IdleWq /\ IdleWs /\ IdleTr

NextOi ==
    \/ \E c \in Callers, op \in InitKinds : OiCallInit(c, op)
    \/ \E c \in Callers : OiCheckInitialized(c)
    \/ \E c \in Callers : OiSetInitialized(c)

SpecOi == InitOi /\ [][NextOi]_vars

\* One data source with a key field and a counter field, and the metrics
\* operator instance of its run.
InitMt ==
    /\ mtEnabled \in BOOLEAN
    /\ mtKind \in CtrKinds
    /\ mtState = "new"
    /\ mtCounters = [k \in MetricKeys |-> Num(0, 0)]
    /\ mtSum = [k \in MetricKeys |-> Num(0, 0)]
    /\ mtCount = [k \in MetricKeys |-> 0]
    /\ IdleRun /\ IdleAtt /\ IdleHost /\ IdleMgr /\ IdleEw /\ IdleTk /\ IdleSym /\ IdleNd /\ IdleOi /\ IdlePm /\ IdleWq /\ IdleWs /\ IdleTr

NextMt ==
    \/ MtInit
    \/ MtPreStart
    \/ \E key \in MetricKeys, v \in CtrValues(mtKind) : MtEmit(key, v)

SpecMt == InitMt /\ [][NextMt]_vars

\* One Param as a descriptor creates it: unassigned, with or without a
\* default value.
InitPm ==
    /\ pm \in [DefaultValue : ParamValues, IsMandatory : BOOLEAN,
               Validator : Validators, TypeHint : TypeHints,
               PossibleValues : PossibleValueLists,
               value : {""}, assigned : {FALSE}]
    /\ pmLast = [op |-> "new", val |-> "", err |-> NoError]
    /\ IdleRun /\ IdleAtt /\ IdleHost /\ IdleMgr /\ IdleEw /\ IdleTk /\ IdleSym /\ IdleNd /\ IdleOi /\ IdleMt /\ IdleWq /\ IdleWs /\ IdleTr

NextPm ==
    \/ \E val \in ParamValues : PmSet(val)
    \/ PmSetString
    \/ \E value \in ParamValues : PmPreValidate(value)
    \/ PmValidate

SpecPm == InitPm /\ [][NextPm]_vars

\* The work queue of the config map store for one key, empty at start.
InitWq ==
    /\ wqQueue = {}
    /\ wqDelayed = FALSE
    /\ wqProc = [active |-> FALSE, by |-> {}, pc |-> "idle", err |-> NoError]
    /\ wqDirty = {}
    /\ wqFailures = 0
    /\ wqExists = FALSE
    /\ wqEvents = 0
    /\ wqLast = [outcome |-> "none", by |-> {}, err |-> NoError]
    /\ IdleRun /\ IdleAtt /\ IdleHost /\ IdleMgr /\ IdleEw /\ IdleTk /\ IdleSym /\ IdleNd /\ IdleOi /\ IdleMt /\ IdlePm /\ IdleWs /\ IdleTr

NextWq ==
    \/ \E kind \in {"add", "update", "delete"} : WqInformerEvent(kind)
    \/ WqDelayElapsed
    \/ ProcessNextItemGet
    \/ ProcessNextItemReconcile
    \/ ProcessNextItemHandleErr
    \/ ProcessNextItemDone

SpecWq == InitWq /\ [][NextWq]_vars

\* btfutils.go:410-415: a new connection with an empty gadgets map.
InitWs ==
    /\ wsGadgets = [id \in RequestIds |-> NoCtx]
    /\ wsCtxs = <<>>
    /\ wsLast = [op |-> "none", id |-> "", err |-> NoError]
    /\ IdleRun /\ IdleAtt /\ IdleHost /\ IdleMgr /\ IdleEw /\ IdleTk /\ IdleSym /\ IdleNd /\ IdleOi /\ IdleMt /\ IdlePm /\ IdleWq /\ IdleTr

NextWs ==
    \/ \E id \in RequestIds : startGadget(id)
    \/ \E id \in RequestIds : stopGadget(id)
    \/ \E h \in 1..Len(wsCtxs) : RunGoroutineEnds(h)
    \/ \E h \in 1..Len(wsCtxs) : RunGoroutineCancel(h)

SpecWs == InitWs /\ [][NextWs]_vars

\* network-graph/tracer/tracer.go NewTracer, tcpdump/tracer/tracer.go:52-68:
\* a new tracer with no attachments.
InitTr ==
    /\ attachments = [k \in LinkKeys |-> NoLink]
    /\ openSocks = {}
    /\ nextFd = 3
    /\ trOps = 0
    /\ attachOk = [k \in LinkKeys |-> 0]
    /\ detachCalls = [k \in LinkKeys |-> 0]
    /\ closeReleased = [k \in LinkKeys |-> 0]
    /\ trLast = [op |-> "none", key |-> "", err |-> NoError]
    /\ IdleRun /\ IdleAtt /\ IdleHost /\ IdleMgr /\ IdleEw /\ IdleTk /\ IdleSym /\ IdleNd /\ IdleOi /\ IdleMt /\ IdlePm /\ IdleWq /\ IdleWs

NextTr ==
    \/ \E key \in LinkKeys, outcome \in AttachOutcomes : TrAttach(key, outcome)
    \/ \E key \in LinkKeys : TrDetach(key)
    \/ TrClose

SpecTr == InitTr /\ [][NextTr]_vars

\* ------------------------------------------------- dependency graph
\* Names the candidates in X depend on directly (only candidates are
\* sorted, so only their Dependencies() are edges).
DepsOf(X) == UNION {Range(registry[a]) : a \in X \cap canEnrich}

RECURSIVE DepClosure(_)
DepClosure(X) ==
    LET Y == X \cup DepsOf(X) IN IF Y = X THEN X ELSE DepClosure(Y)

\* Everything a depends on, directly or not.
Descendants(a) == DepClosure(DepsOf({a}))

\* The candidates' dependencies stay inside the candidate set.
DepsClosed == DepsOf(canEnrich) \subseteq canEnrich

\* Some candidate depends on itself through candidates.
HasCycle == \E a \in canEnrich : a \in Descendants(a)

\* s holds every member of S exactly once.
IsOrderOf(s, S) == Len(s) = Cardinality(S) /\ Range(s) = S

\* Every element of s comes after all the names it depends on.
DepsFirst(s) ==
    \A i \in 1..Len(s) : \A d \in Range(registry[s[i]]) :
        \E j \in 1..(i - 1) : s[j] = d

Sorted == pc \notin {"idle", "panicked"}

\* C1: for candidates whose dependencies form an acyclic graph over the
\* candidate set, sorting succeeds and returns an order of the candidates in
\* which every enricher comes after all the enrichers it depends on.
C1_SortRespectsDependencies ==
    (pc # "idle" /\ DepsClosed /\ ~HasCycle)
        => (Sorted /\ IsOrderOf(rEnrichers, canEnrich) /\ DepsFirst(rEnrichers))

\* C1 witness: the case of TestSortEnrichers, sorted to e1, e2, e3.
C1_Witness ==
    /\ pc = "sorted"
    /\ registry = Chain
    /\ canEnrich = Names
    /\ rEnrichers = <<"e1", "e2", "e3">>

\* Callbacks of enrichers or of the gadget that have been invoked.
Started == calls # <<>>

\* C2: when the candidates' dependency graph contains a cycle, starting the
\* run fails with the dependency-cycle error (raised as a panic by
\* GetEnrichersForGadget) and no enricher and no gadget callback is invoked.
C2_CycleFailsRunStart ==
    (pc # "idle" /\ HasCycle)
        => (pc = "panicked" /\ retErr.who = ErrCycle /\ ~Started /\ rEnrichers = <<>>)

\* C2 witness: e1 and e2 depend on each other and the run start has failed.
C2_Witness ==
    /\ pc = "panicked"
    /\ registry["e1"] = <<"e2">>
    /\ registry["e2"] = <<"e1">>
    /\ {"e1", "e2"} \subseteq canEnrich
    /\ retErr.who = ErrCycle

\* ------------------------------------------------------- call log
Reverse(s) == [i \in 1..Len(s) |-> s[Len(s) + 1 - i]]

\* The receivers of the callbacks `op`, in the order of the calls.
Order(op) ==
    LET evs == SelectSeq(calls, LAMBDA e : e.op = op)
    IN  [i \in 1..Len(evs) |-> evs[i].who]

Called(op) == \E i \in 1..Len(calls) : calls[i].op = op
Failed(op) == \E i \in 1..Len(calls) : calls[i].op = op /\ ~calls[i].ok

\* No call of an operation in `later` precedes a call of one in `earlier`.
Precede(earlier, later) ==
    \A i, j \in 1..Len(calls) :
        (calls[i].op \in later /\ calls[j].op \in earlier) => j < i

\* C3 (as claimed): the per-run teardown callbacks of the enrichers are
\* invoked in the reverse of the order of their pre-run callbacks.
C3_TeardownInReverseOrder ==
    Called("PostGadgetRun") => Order("PostGadgetRun") = Reverse(Order("PreGadgetRun"))

\* C4: when the pre-run callback of an enricher returns an error, the
\* gadget's Start is never called and the run returns that error.
C4_PreRunErrorAbortsRun ==
    Failed("PreGadgetRun") =>
        /\ ~Called("Start")
        /\ pc \in {"deferClose", "returned"}
        /\ retErr.msg = "starting enrichers"
        /\ \E i \in 1..Len(calls) :
             /\ calls[i] = Ev("PreGadgetRun", retErr.who, FALSE)
             /\ \A j \in 1..Len(calls) : calls[j].op = "PreGadgetRun" => j <= i

\* C4 witness: the second enricher's PreGadgetRun failed and the run has
\* returned.
C4_Witness ==
    /\ pc = "returned"
    /\ Len(Order("PreGadgetRun")) = 2
    /\ Failed("PreGadgetRun")
    /\ startStop = "std"

\* C5 (as claimed): when Start returns an error, the run returns it only
\* after every enricher installed for the run has been shut down, in the
\* reverse of the order in which they were installed.
C5_StartErrorStopsInReverse ==
    (pc = "returned" /\ Failed("Start")) =>
        /\ retErr.msg = "run gadget"
        /\ Called("Stop")
        /\ Order("PostGadgetRun") = Reverse(Order("PreGadgetRun"))

\* C6: at the end of a run of a started gadget, the gadget's Stop is called
\* first, then the enrichers are shut down, and only then is the result read
\* through Result(); the runner's GetResult returns exactly what Result()
\* returned.
C6_StopThenShutdownThenResult ==
    /\ Precede({"Stop"}, {"PostGadgetRun", "Close", "Result"})
    /\ Precede({"PostGadgetRun"}, {"Close", "Result"})
    /\ (Called("Start") /\ Called("Result")) =>
           /\ Called("Stop")
           /\ Range(Order("PostGadgetRun")) = Range(rEnrichers)
    /\ Called("Result") => (gadgetResult \in ResultValues /\ GetResult = gadgetResult)
    /\ (pc = "returned" /\ hasResult /\ Called("PreGadgetRun")) => Called("Result")

\* C6 witness: a started gadget with two enrichers has been stopped, and its
\* failing Result() has been handed to the runner.
C6_Witness ==
    /\ pc = "returned"
    /\ Called("Start")
    /\ ~Failed("Start")
    /\ Len(Order("PostGadgetRun")) = 2
    /\ GetResult = <<"", "result error">>

Teardown == {"deferStop", "deferPost", "deferClose", "returned"}

\* C7: a run of a gadget that is not one-shot, once started without error,
\* does not begin its teardown or return before its context is done; a run
\* of a one-shot gadget goes on to its teardown once Start has completed,
\* whether or not the context is done.
C7_OnlyOneShotReturnsEarly ==
    /\ (pc \in Teardown /\ retErr.msg = NoError /\ gType # TypeOneShot) => ctxDone
    /\ (pc = "running" /\ gType = TypeOneShot) => ENABLED WaitDone
    /\ (pc = "running" /\ gType # TypeOneShot /\ ~ctxDone) => ~ENABLED WaitDone

\* C7 witness: a one-shot gadget has returned while its context is not done.
C7_Witness ==
    /\ pc = "returned"
    /\ gType = TypeOneShot
    /\ Called("Start")
    /\ retErr.msg = NoError
    /\ ~ctxDone

\* ------------------------------------------------------- attach calls
AttachCalled(c) == \E i \in 1..Len(gcalls) : gcalls[i].op = "Attach" /\ gcalls[i].c = c

\* C8: once PreGadgetRun has returned for a gadget implementing Attacher,
\* the gadget has received an attach call for every container that matched
\* the selector when the run subscribed and for every matching container
\* added since, as long as the run is active.
C8_AttachCurrentAndFuture ==
    (isAttacher /\ apc \in {"running", "done"})
        => \A c \in everMatching : AttachCalled(c)

\* C8 witness: container a matched at Subscribe, container c was added
\* during the run, and both were attached.
C8_Witness ==
    /\ apc = "running"
    /\ selName = "demo"
    /\ [id |-> "a", name |-> "demo"] \in Range(initial)
    /\ [id |-> "c", name |-> "demo"] \in everMatching \ Range(initial)
    /\ AttachCalled([id |-> "a", name |-> "demo"])
    /\ AttachCalled([id |-> "c", name |-> "demo"])

\* ----------------------------------------------------- runs per id
\* A run is live when run() is executing and its context is not cancelled.
Live(h) == runs[h].state = "running" /\ ~runs[h].cancelled

\* C9: at every moment at most one gadget run is live for a given id.
C9_AtMostOneLiveRunPerId ==
    \A h1, h2 \in 1..Len(runs) :
        (Live(h1) /\ Live(h2) /\ runs[h1].id = runs[h2].id) => h1 = h2

\* C10: after RunOCIGadget(id, config) has returned without error the
\* manager holds a run for id under that config.
C10_RunGadgetStartsRun ==
    (lastCall.op = "RunOCIGadget" /\ lastCall.err = NoError)
        => /\ lastCall.id \in DOMAIN gadgetInstances
           /\ gadgetInstances[lastCall.id] = lastCall.req

\* ------------------------------------------------------ instance store
\* C11: after a store has replayed its contents on startup, every stored
\* gadget instance is started in the manager under its id.
C11_ReplayStartsEachStored ==
    (lastCall.op = "init" /\ lastCall.err = NoError)
        => \A g \in getGadgets(files) :
             /\ g.id \in DOMAIN gadgetInstances
             /\ gadgetInstances[g.id] = g.runRequest

\* C12: a Remove(id) that directly follows a successful Remove(id) returns
\* success too and leaves the store and the manager unchanged.
C12_RemoveIsIdempotent ==
    [][(/\ lastCall.op = "RemoveOCIGadgetInstance"
        /\ lastCall.err = NoError
        /\ lastCall'.op = "RemoveOCIGadgetInstance"
        /\ lastCall'.id = lastCall.id)
          => (/\ lastCall'.err = NoError
              /\ files' = files
              /\ gadgetInstances' = gadgetInstances)]_vars

\* C13: after a successful Install the list contains the instance under
\* its generated id, and a listed instance stays listed until a Remove of
\* its id.
C13_InstallThenListContains ==
    /\ [](((lastCall.op = "InstallOCIGadgetInstance" /\ lastCall.err = NoError))
            => GadgetInstance(lastCall.id, lastCall.req)
                   \in ListOCIGadgetInstances(files))
    /\ [][\A g \in ListOCIGadgetInstances(files) :
            \/ g \in ListOCIGadgetInstances(files')
            \/ (lastCall'.op = "RemoveOCIGadgetInstance" /\ lastCall'.id = g.id)]_vars

\* ---------------------------------------------------------- enrichment
\* C14: an identity sub-field is written only if that same field is
\* requested.
C14_WrittenOnlyIfRequested ==
    \A f \in DOMAIN evData : evData[f] # Unset => f \in requested

\* -------------------------------------------------------------- tickers
\* C15: once the context of the run is done, a ticker goroutine emits no
\* further packet.
C15_NoPacketAfterContextDone ==
    \A t \in DOMAIN tkLate : tkLate[t] = 0

\* -------------------------------------------------------------- symbols
\* C16: a lookup made while the pid runs an executable with symbols is
\* resolved against that executable, whatever the pid ran before.
C16_LookupUsesCurrentExecutable ==
    (symLast.addresses # <<>> /\ symLast.exe # NoExe /\ Symtab(symLast.exe) # <<>>)
        => /\ symLast.err = NoError
           /\ symLast.res = [idx \in 1..Len(symLast.addresses) |->
                                FindSymbol(Symtab(symLast.exe), symLast.addresses[idx])]

\* ---------------------------------------------------------- node errors
\* C17: when the stream or connection of one node fails, the process
\* serving the nodes is not brought down, so the peers keep delivering.
C17_NodeFailureIsIsolated ==
    \A n \in DOMAIN ndStream : ndStream[n].state = "failed" => ndProc # "panicked"

\* -------------------------------------------------------- operator Init
\* C19: when the Init of one enricher returns an error, the other enrichers
\* of the run are still initialised.
C19_InitErrorIsLocal ==
    Failed("Init") => Range(Order("Init")) = Range(rEnrichers)

\* C18: the Init of an operator is executed at most once per process,
\* however many callers invoke it.
C18_InitAtMostOnce ==
    \A op \in DOMAIN oiBodyRuns : oiBodyRuns[op] <= 1

\* -------------------------------------------------------------- metrics
\* C20: for a data source with metrics.enable=true and a numeric field
\* annotated metrics.type=counter, the exported counter of every key set
\* equals the sum of the field's values over the packets emitted so far
\* with that key set.
C20_CounterIsSumOfValues ==
    (mtEnabled /\ mtState = "subscribed")
        => \A key \in MetricKeys : mtCounters[key] = mtSum[key]

\* --------------------------------------------------------------- params
\* C21: p.Set(p.String()) is a no-op in every state of a Param: String()
\* and the outcome of Validate() are the same after the call as before.
C21_SetStringIsNoOp ==
    [][PmSetString => (String(pm') = String(pm) /\ Validate(pm') = Validate(pm))]_vars

\* C21 witness: Set(String()) has assigned the default value of a param
\* that was unassigned, and the param validates.
C21_Witness ==
    /\ pmLast.op = "SetString"
    /\ pmLast.err = NoError
    /\ pm.assigned /\ pm.DefaultValue = "a" /\ pm.value = "a"
    /\ Validate(pm) = NoError

\* C22: a param with a non-empty PossibleValues list accepts a non-empty
\* value only if the value is in the list.
C22_OnlyPossibleValuesAccepted ==
    (/\ pmLast.op \in {"PreValidate", "Validate"}
     /\ pm.PossibleValues # {}
     /\ pmLast.val # ""
     /\ pmLast.err = NoError)
        => pmLast.val \in pm.PossibleValues

\* ------------------------------------------------------- detach calls
AttachSucceeded(c) ==
    \E i \in 1..Len(gcalls) : gcalls[i].op = "Attach" /\ gcalls[i].c = c /\ gcalls[i].ok

DetachCount(c) ==
    Cardinality({i \in 1..Len(gcalls) : gcalls[i].op = "Detach" /\ gcalls[i].c = c})

\* C23: when the run is over, every container whose AttachContainer
\* succeeded during the run (the fake host container included) has received
\* exactly one DetachContainer call.
C23_DetachedExactlyOnce ==
    (isAttacher /\ apc = "done")
        => \A c \in Containers \cup {HostContainer} :
             AttachSucceeded(c) => DetachCount(c) = 1

\* ------------------------------------------------------------- retries
\* C24: a key whose reconcile fails is re-queued at most 5 times; when
\* reconcile fails after the fifth re-queue the key is forgotten and is
\* neither queued nor waiting to be queued unless a new event added it;
\* a successful reconcile resets the retry history.
C24_AtMostFiveRetries ==
    /\ [](wqFailures <= MaxRetries)
    /\ [][ProcessNextItemHandleErr =>
            /\ (wqLast'.err = NoError => wqFailures' = 0)
            /\ (wqLast'.err # NoError /\ wqFailures = MaxRetries)
                   => /\ wqFailures' = 0
                      /\ ~wqDelayed'
                      /\ wqDirty' \subseteq {"event"}]_vars

\* ------------------------------------------------------- post-run calls
PreRunSucceeded(e) ==
    \E i \in 1..Len(calls) :
        calls[i].op = "PreGadgetRun" /\ calls[i].who = e /\ calls[i].ok

PostRunCount(e) ==
    Cardinality({i \in 1..Len(calls) : calls[i].op = "PostGadgetRun" /\ calls[i].who = e})

\* C25: when RunTraceGadget has returned, every operator instance whose
\* PreGadgetRun succeeded has had its PostGadgetRun invoked exactly once,
\* also when a later PreGadgetRun or the gadget's Start failed.
C25_PostRunForEveryPreRun ==
    pc = "returned" =>
        \A e \in Range(rEnrichers) : PreRunSucceeded(e) => PostRunCount(e) = 1

\* -------------------------------------------------------- stopped runs
\* C26: once StopAndRemoveGadgetRun(id) has returned success, the gadget
\* run that was registered under id is cancelled: it is not running with a
\* live context, also when the call overlapped AddGadgetRun's init.
C26_StoppedRunIsCancelled ==
    \A t \in 1..Len(threads) :
        (threads[t].op = "Stop" /\ threads[t].pc = "done" /\ threads[t].err = NoError)
            => ~Live(threads[t].h)

\* ------------------------------------------------- gadgets by request ID
\* C27: the gadgets map entry of a request ID refers to the gadget context
\* most recently started under that ID, and every gadget context that is
\* still running and not cancelled has its entry, so it can be stopped by
\* its ID.
C27_RunningGadgetKeepsEntry ==
    /\ \A id \in RequestIds :
         wsGadgets[id] # NoCtx =>
             \A h \in 1..Len(wsCtxs) : wsCtxs[h].id = id => h <= wsGadgets[id]
    /\ \A h \in 1..Len(wsCtxs) :
         (~wsCtxs[h].ended /\ ~wsCtxs[h].cancelled) => wsGadgets[wsCtxs[h].id] = h

\* --------------------------------------------------- absent dependencies
\* C28: sorting reports a dependency cycle, and GetEnrichersForGadget
\* panics, only when the candidates' dependency graph contains a cycle; a
\* dependency that is not among the candidates causes neither.
C28_CycleErrorOnlyForCycles ==
    pc = "panicked" => HasCycle

\* ---------------------------------------------------- mount ns maps
\* C29: every mount namespace map created for the run in PreGadgetRun has
\* been removed when the run's PostGadgetRun has returned, whether or not
\* the gadget implements Attacher.
C29_MountNsMapRemoved ==
    (manager = "LocalManager" /\ apc = "done") => RunID \notin mntnsMaps

\* ---------------------------------------------------------- links
\* Successful Attach calls of key not yet matched by a Detach call.
Outstanding(key) == attachOk[key] - detachCalls[key]

\* The same, counted since the tracer was last closed.
OutstandingSinceClose(key) == Outstanding(key) - closeReleased[key]

\* C30 as stated: a key stays attached, with its socket open and
\* users >= 1, until Detach has been called as many times as Attach
\* succeeded for it, and it is released exactly at that last Detach; a
\* failed Attach and a Detach of a key that is not attached leave the
\* attachments map unchanged.
C30_AttachedUntilLastDetach ==
    /\ [](\A key \in LinkKeys :
            IF Outstanding(key) > 0
            THEN /\ attachments[key] # NoLink
                 /\ attachments[key].users = Outstanding(key)
                 /\ attachments[key].sockFd \in openSocks
            ELSE attachments[key] = NoLink)
    /\ [](openSocks = {attachments[k].sockFd : k \in {j \in LinkKeys : attachments[j] # NoLink}})
    /\ [][(trLast' # trLast /\ trLast'.err # NoError) => attachments' = attachments]_vars

\* C30, amended: a key stays attached, with its socket open and
\* users >= 1, until Detach has been called as many times as Attach
\* succeeded for it since the tracer was last closed; it is released at
\* that last Detach or by Close, which releases every key whatever its
\* users; a failed Attach and a Detach of a key that is not attached leave
\* the attachments map unchanged.
C30_AttachedUntilLastDetachOrClose ==
    /\ [](\A key \in LinkKeys :
            IF OutstandingSinceClose(key) > 0
            THEN /\ attachments[key] # NoLink
                 /\ attachments[key].users = OutstandingSinceClose(key)
                 /\ attachments[key].sockFd \in openSocks
            ELSE attachments[key] = NoLink)
    /\ [](openSocks = {attachments[k].sockFd : k \in {j \in LinkKeys : attachments[j] # NoLink}})
    /\ [][(trLast' # trLast /\ trLast'.err # NoError) => attachments' = attachments]_vars
    /\ [][TrClose => (attachments' = [k \in LinkKeys |-> NoLink] /\ openSocks' = {})]_vars

\* C30 witness: k1 was attached twice and detached twice with no Close in
\* between; the second Detach released it and closed its socket.
C30_Witness ==
    /\ attachOk["k1"] = 2
    /\ detachCalls["k1"] = 2
    /\ closeReleased["k1"] = 0
    /\ trLast = [op |-> "Detach", key |-> "k1", err |-> NoError]
    /\ attachments["k1"] = NoLink
    /\ openSocks = {}

====
